---- MODULE Spec2Model ----
(***************************************************************************)
(* Backgammon rules engine (src/src/engine): board model, move generator,  *)
(* move validator/applier, turn/game state machine and doubling cube.      *)
(* The engine is a set of pure operations over GameState values; each      *)
(* operation is an operator below, and each action applies one operation   *)
(* to the game state the caller currently holds.                           *)
(***************************************************************************)
EXTENDS Integers, Sequences, FiniteSets, TLC

(***************************************************************************)
(* Bounds of the model.                                                    *)
(***************************************************************************)
\* Turns completed (moveHistory entries appended) from createGame under Spec.
MaxTurns == 1

\* Largest die face the roll operations draw under Spec and SpecCube (SpecMoves draws all six).
MaxDie == 2

\* How many of the positions of PositionList SpecMoves starts from.
NumPositions == 12

\* Largest target score of a limited match.
MaxTarget == 3

\* Largest number of points updateMatchScore is given for one game.
MaxPoints == 2

\* Games of one match that are scored.
MaxGames == 3

(***************************************************************************)
(* types.ts                                                                *)
(***************************************************************************)
Players == {"white", "black"}

\* A null board slot (BoardState holds CheckerStack | null).
NoStack == [player |-> "none", count |-> 0]

\* A null Dice.
NoDice == [die1 |-> 0, die2 |-> 0]

\* rollDie(): Math.floor(Math.random() * 6) + 1
DieFaces == 1..6

\* getDiceValues(dice): four values for a double, otherwise the two values.
\* A faulty variant of getDiceValues: die1 is taken twice.
getDiceValuesFirstTwice(dice) ==
  IF dice.die1 = dice.die2
    THEN <<dice.die1, dice.die1, dice.die1, dice.die1>>
    ELSE <<dice.die1, dice.die1>>

getDiceValues(dice) ==
  IF dice.die1 = dice.die2
    THEN <<dice.die1, dice.die1, dice.die1, dice.die1>>
    ELSE <<dice.die1, dice.die2>>

(***************************************************************************)
(* board.ts                                                                *)
(***************************************************************************)
Stack(p, n) == [player |-> p, count |-> n]

createInitialBoard ==
  [pt \in 0..25 |->
     CASE pt = 24 -> Stack("white", 2)
       [] pt = 13 -> Stack("white", 5)
       [] pt = 8  -> Stack("white", 3)
       [] pt = 6  -> Stack("white", 5)
       [] pt = 1  -> Stack("black", 2)
       [] pt = 12 -> Stack("black", 5)
       [] pt = 17 -> Stack("black", 3)
       [] pt = 19 -> Stack("black", 5)
       [] OTHER   -> NoStack]

getBarPoint(player) == IF player = "white" THEN 0 ELSE 25

playerPointToBoardPoint(playerPoint, player) ==
  IF playerPoint = 0 \/ playerPoint = 25 THEN playerPoint
  ELSE IF playerPoint < 1 \/ playerPoint > 24 THEN playerPoint
  ELSE IF player = "white" THEN playerPoint ELSE 25 - playerPoint

getOpponent(player) == IF player = "white" THEN "black" ELSE "white"

hasCheckersOnBar(board, player) ==
  LET stack == board[getBarPoint(player)]
  IN stack # NoStack /\ stack.count > 0

getCheckerCount(board, point, player) ==
  LET stack == board[point]
  IN IF stack = NoStack \/ stack.player # player THEN 0 ELSE stack.count

allCheckersInHomeBoard(board, player) ==
  LET homeStart == IF player = "white" THEN 1 ELSE 19
      homeEnd   == IF player = "white" THEN 6 ELSE 24
  IN /\ ~hasCheckersOnBar(board, player)
     /\ \A point \in 1..24 :
          (point >= homeStart /\ point <= homeEnd)
          \/ ~(board[point] # NoStack /\ board[point].player = player
               /\ board[point].count > 0)

RECURSIVE SumCount(_, _, _)
SumCount(board, player, point) ==
  IF point > 25 THEN 0
  ELSE (IF board[point] # NoStack /\ board[point].player = player
          THEN board[point].count ELSE 0)
       + SumCount(board, player, point + 1)

countCheckersOnBoard(board, player) == SumCount(board, player, 0)

isPointBlocked(board, point, player) ==
  IF point < 0 \/ point > 25 THEN FALSE
  ELSE LET stack == board[point]
       IN stack # NoStack /\ stack.player # player /\ stack.count >= 2

isBlot(board, point, player) ==
  IF point < 0 \/ point > 25 THEN FALSE
  ELSE LET stack == board[point]
       IN stack # NoStack /\ stack.player # player /\ stack.count = 1

\* Removing one checker from a stack (fromStack.count--, null when it empties).
TakeOne(board, from) ==
  [board EXCEPT ![from] =
     IF board[from].count - 1 = 0 THEN NoStack
     ELSE Stack(board[from].player, board[from].count - 1)]

\* A faulty variant of HitBlot: the blot stays where it is.
HitBlotIgnored(board, to) == board

\* A faulty variant of HitBlot: the point is cleared and the blot never reaches the bar.
HitBlotLost(board, to) == [board EXCEPT ![to] = NoStack]

\* The hit branch: the blot goes to its owner's bar and the point is cleared.
HitBlot(board, to) ==
  LET owner == board[to].player
      bar   == getBarPoint(owner)
  IN [board EXCEPT
        ![bar] = IF board[bar] # NoStack
                   THEN Stack(board[bar].player, board[bar].count + 1)
                   ELSE Stack(owner, 1),
        ![to]  = NoStack]

\* The final branch: a checker of the player is put on the destination.
PutOne(board, to, player) ==
  IF board[to] = NoStack THEN [board EXCEPT ![to] = Stack(player, 1)]
  ELSE IF board[to].player = player
    THEN [board EXCEPT ![to] = Stack(player, board[to].count + 1)]
  ELSE board

\* applyMoveToBoard mutates the board and returns a boolean; the operator
\* returns both the boolean and the board as the call leaves it.
applyMoveToBoard(board, from, to, player) ==
  LET fromStack == board[from]
  IN IF fromStack = NoStack \/ fromStack.player # player \/ fromStack.count = 0
       THEN [ok |-> FALSE, board |-> board]
     ELSE
       LET b1 == TakeOne(board, from)
           toStack == b1[to]
       IN IF toStack # NoStack /\ toStack.player # player
            THEN IF toStack.count = 1
                   THEN [ok |-> TRUE, board |-> PutOne(HitBlot(b1, to), to, player)]
                   ELSE [ok |-> FALSE, board |-> b1]
            ELSE [ok |-> TRUE, board |-> PutOne(b1, to, player)]

(***************************************************************************)
(* moves.ts : the move generator                                           *)
(***************************************************************************)
Move(from, to, die) == [from |-> from, to |-> to, die |-> die]

canMoveTo(board, point, player) ==
  IF point < 1 \/ point > 24 THEN FALSE
  ELSE ~isPointBlocked(board, point, player)

\* A faulty variant of canBearOffFromPlayerPoint: the higher points are not looked at.
canBearOffFromAnyPoint(board, playerPoint, player) == TRUE

canBearOffFromPlayerPoint(board, playerPoint, player) ==
  \A p \in (playerPoint + 1)..6 :
     getCheckerCount(board, playerPointToBoardPoint(p, player), player) = 0

\* The bar branch of generateMovesForDie.
BarMovesForDie(board, player, die) ==
  LET entryPlayerPoint == 25 - die
      entryBoardPoint  == playerPointToBoardPoint(entryPlayerPoint, player)
  IN IF canMoveTo(board, entryBoardPoint, player)
       THEN {Move(IF player = "white" THEN 0 ELSE 25, entryPlayerPoint, die)}
       ELSE {}

\* The loop body of generateMovesForDie for one origin (player's perspective).
PointMovesForDie(board, player, die, playerPoint, canBearOff) ==
  LET boardPoint      == playerPointToBoardPoint(playerPoint, player)
      destPlayerPoint == playerPoint - die
      destBoardPoint  == playerPointToBoardPoint(destPlayerPoint, player)
  IN IF getCheckerCount(board, boardPoint, player) = 0 THEN {}
     ELSE IF destPlayerPoint >= 1 /\ destPlayerPoint <= 24
       THEN IF canMoveTo(board, destBoardPoint, player)
              THEN {Move(playerPoint, destPlayerPoint, die)} ELSE {}
     ELSE IF canBearOff /\ destPlayerPoint < 1
       THEN IF playerPoint >= 1 /\ playerPoint <= 6
              THEN IF destPlayerPoint = 0
                     THEN {Move(playerPoint, -1, die)}
                   ELSE IF destPlayerPoint < 0
                             /\ canBearOffFromPlayerPoint(board, playerPoint, player)
                     THEN {Move(playerPoint, -1, die)}
                   ELSE {}
              ELSE {}
     ELSE {}

\* A faulty variant of generateMovesForDie: no early return for a checker on the bar.
generateMovesForDieIgnoringBar(board, player, die) ==
  LET canBearOff == allCheckersInHomeBoard(board, player)
  IN (IF hasCheckersOnBar(board, player) THEN BarMovesForDie(board, player, die) ELSE {})
     \cup UNION {PointMovesForDie(board, player, die, playerPoint, canBearOff)
                  : playerPoint \in 1..24}

\* generateMovesForDie: the candidate moves of one die (as a set).
generateMovesForDie(board, player, die) ==
  IF hasCheckersOnBar(board, player)
    THEN BarMovesForDie(board, player, die)
    ELSE LET canBearOff == allCheckersInHomeBoard(board, player)
         IN UNION {PointMovesForDie(board, player, die, playerPoint, canBearOff)
                     : playerPoint \in 1..24}

\* Conversion of a move's endpoints to board coordinates (search, and the
\* apply loop of validateAndApplyMoves).
FromBoard(move, player) ==
  IF move.from = 0 \/ move.from = 25 THEN move.from
  ELSE playerPointToBoardPoint(move.from, player)

ToBoard(move, player) ==
  IF move.to = -1 THEN -1
  ELSE IF move.to = 0 \/ move.to = 25 THEN move.to
  ELSE playerPointToBoardPoint(move.to, player)

\* One step of search: the move applied to a clone of the board.
SearchApply(board, player, move) ==
  LET fromBoard == FromBoard(move, player)
      toBoard   == ToBoard(move, player)
  IN IF toBoard = -1
       THEN LET fromStack == board[fromBoard]
            IN IF fromStack # NoStack /\ fromStack.player = player /\ fromStack.count > 0
                 THEN [ok |-> TRUE, board |-> TakeOne(board, fromBoard)]
                 ELSE [ok |-> FALSE, board |-> board]
       ELSE applyMoveToBoard(board, fromBoard, toBoard, player)

\* The hit flag search attaches to a move.
SearchHit(board, player, move) ==
  LET toBoard == ToBoard(move, player)
  IN toBoard >= 1 /\ toBoard <= 24 /\ isBlot(board, toBoard, player)

WithHit(move, hit) ==
  [from |-> move.from, to |-> move.to, die |-> move.die, hit |-> hit]

\* remainingDice with entry i spliced out.
\* A faulty variant of RemoveAt: splice(i) without a delete count drops the die and all after it.
RemoveFrom(s, i) == SubSeq(s, 1, i - 1)

RemoveAt(s, i) == [j \in 1..(Len(s) - 1) |-> IF j < i THEN s[j] ELSE s[j + 1]]

\* The indices of search's loop over remainingDice.  Entries with equal values
\* give the same candidate moves and the same remaining dice, so the set of
\* recorded sequences is the one of their first occurrences.
DieIndices(dice) == {i \in DOMAIN dice : \A j \in 1..(i - 1) : dice[j] # dice[i]}

\* search: the set of sequences pushed to `sequences` below this node.
RECURSIVE search(_, _, _, _)
search(currentBoard, player, remainingDice, currentMoves) ==
  IF Len(remainingDice) = 0
    THEN IF Len(currentMoves) > 0 THEN {currentMoves} ELSE {}
  ELSE
    UNION {
      IF steps = {}
        THEN IF Len(currentMoves) > 0 THEN {currentMoves} ELSE {}
        ELSE UNION {search(SearchApply(currentBoard, player, st[2]).board,
                           player,
                           RemoveAt(remainingDice, st[1]),
                           Append(currentMoves,
                                  WithHit(st[2], SearchHit(currentBoard, player, st[2]))))
                      : st \in steps}
      : steps \in {UNION {{<<i, m>> : m \in {c \in generateMovesForDie(currentBoard, player,
                                                                         remainingDice[i])
                                                : SearchApply(currentBoard, player, c).ok}}
                           : i \in DieIndices(remainingDice)}}}

MaxOf(S) == CHOOSE x \in S : \A y \in S : y <= x

\* A faulty variant of LongestOnly: every recorded sequence is kept.
KeepAll(sequences, maxLength) == sequences

\* sequences.filter(seq => seq.length === maxLength).
LongestOnly(sequences, maxLength) == {seq \in sequences : Len(seq) = maxLength}

\* A faulty variant of HigherDieFilter: no preference for the higher die.
NoHigherDieFilter(filtered, dice, maxLength) == filtered

\* The higher-die filter at the end of generateAllPossibleMoveSequences.
HigherDieFilter(filtered, dice, maxLength) ==
  IF Len(dice) = 2 /\ dice[1] # dice[2] /\ maxLength = 1
    THEN LET higherDie == MaxOf({dice[1], dice[2]})
             higherDieMoves == {seq \in filtered : seq[1].die = higherDie}
         IN IF higherDieMoves # {} THEN higherDieMoves ELSE filtered
    ELSE filtered

\* sequences, maxLength and filtered are each computed once.
generateAllPossibleMoveSequences(board, player, dice) ==
  UNION {
    IF sequences # {}
      THEN UNION {
             UNION {HigherDieFilter(filtered, dice, maxLength)
                    : filtered \in {LongestOnly(sequences, maxLength)}}
             : maxLength \in {MaxOf({Len(seq) : seq \in sequences})}}
      ELSE {}
    : sequences \in {search(board, player, dice, <<>>)}}

getLegalMoves(state) ==
  IF state.phase # "moving" \/ Len(state.unusedDice) = 0 THEN {}
  ELSE generateAllPossibleMoveSequences(state.board, state.currentPlayer, state.unusedDice)

hasLegalMoves(state) == getLegalMoves(state) # {}

(***************************************************************************)
(* moves.ts : the move validator/applier                                   *)
(***************************************************************************)
\* The comparator of movesEqual's sort: negative, zero or positive.
MoveCompare(a, b) ==
  IF a.from # b.from THEN a.from - b.from
  ELSE IF a.to # b.to THEN a.to - b.to
  ELSE a.die - b.die

\* [...moves].sort(comparator): insertion of each move into a sorted prefix.
RECURSIVE SortInsert(_, _)
SortInsert(sorted, m) ==
  IF sorted = <<>> THEN <<m>>
  ELSE IF MoveCompare(m, Head(sorted)) < 0 THEN <<m>> \o sorted
  ELSE <<Head(sorted)>> \o SortInsert(Tail(sorted), m)

RECURSIVE SortMoves(_)
SortMoves(moves) ==
  IF moves = <<>> THEN <<>>
  ELSE SortInsert(SortMoves(Tail(moves)), Head(moves))

\* A faulty variant of SortedKey: the die is left out of the comparison.
SortedKeyWithoutDie(moves) ==
  LET sorted == SortMoves(moves)
  IN [i \in DOMAIN sorted |-> <<sorted[i].from, sorted[i].to, 0>>]

\* The (from, to, die) fields movesEqual compares, of the sorted copy.
SortedKey(moves) ==
  LET sorted == SortMoves(moves)
  IN [i \in DOMAIN sorted |-> <<sorted[i].from, sorted[i].to, sorted[i].die>>]

movesEqual(moves1, moves2) ==
  IF Len(moves1) # Len(moves2) THEN FALSE
  ELSE SortedKey(moves1) = SortedKey(moves2)

\* legalMoveSequences.some(legalSeq => movesEqual(legalSeq, moves)), with the
\* sorted copies of the legal sequences computed once.
LegalKeys(legalMoveSequences) == {SortedKey(legalSeq) : legalSeq \in legalMoveSequences}

\* A faulty variant of IsLegalSequence: the submitted sequence is compared unsorted.
IsLegalSequenceInOrder(legalKeys, moves) ==
  [i \in DOMAIN moves |-> <<moves[i].from, moves[i].to, moves[i].die>>] \in legalKeys

IsLegalSequence(legalKeys, moves) == SortedKey(moves) \in legalKeys

\* Array.prototype.indexOf, 1-based; 0 when absent.
IndexOf(s, x) ==
  IF \E i \in DOMAIN s : s[i] = x
    THEN CHOOSE i \in DOMAIN s : s[i] = x /\ \A j \in 1..(i - 1) : s[j] # x
    ELSE 0

\* A MoveResult.  newState is meaningful only when hasNewState is TRUE.
Failure(state, error) ==
  [valid |-> FALSE, error |-> error, hasNewState |-> FALSE, newState |-> state]

Success(newState) ==
  [valid |-> TRUE, error |-> "", hasNewState |-> TRUE, newState |-> newState]

\* The body of the apply loop for one move, on the state built so far.
\* The die is consumed before the move is applied; a bear-off whose origin
\* holds no checker of the player, and a board move applyMoveToBoard refuses,
\* leave the board as the call left it.
ApplyOneMove(state, newState, move) ==
  LET player    == state.currentPlayer
      fromBoard == FromBoard(move, player)
      toBoard   == ToBoard(move, player)
      dieIndex  == IndexOf(newState.unusedDice, move.die)
      diceLeft  == RemoveAt(newState.unusedDice, dieIndex)
  IN IF move.to = -1
       THEN LET fromStack == newState.board[fromBoard]
            IN IF fromStack # NoStack /\ fromStack.player = player
                 THEN [newState EXCEPT
                         !.unusedDice = diceLeft,
                         !.board = TakeOne(newState.board, fromBoard),
                         !.whiteOff = IF player = "white" THEN @ + 1 ELSE @,
                         !.blackOff = IF player = "white" THEN @ ELSE @ + 1]
                 ELSE [newState EXCEPT !.unusedDice = diceLeft]
       ELSE [newState EXCEPT
               !.unusedDice = diceLeft,
               !.board = applyMoveToBoard(newState.board, fromBoard, toBoard, player).board]

\* The apply loop: 'Invalid die used' as soon as a move's die is not unused.
RECURSIVE ApplyMoves(_, _, _)
ApplyMoves(state, newState, moves) ==
  IF moves = <<>> THEN Success(newState)
  ELSE IF IndexOf(newState.unusedDice, Head(moves).die) = 0
    THEN Failure(state, "Invalid die used")
  ELSE ApplyMoves(state, ApplyOneMove(state, newState, Head(moves)), Tail(moves))

\* A faulty variant of ValidateAgainst: the empty sequence is accepted whatever the
\* generator returns.
ValidateAgainstPassAlways(state, moves, legalMoveSequences, legalKeys) ==
  IF state.phase # "moving" THEN Failure(state, "Not in moving phase")
  ELSE IF Len(state.unusedDice) = 0 THEN Failure(state, "No dice available to use")
  ELSE IF Len(moves) = 0 THEN Success(state)
  ELSE IF ~IsLegalSequence(legalKeys, moves)
    THEN Failure(state, "Invalid move sequence")
  ELSE ApplyMoves(state, state, moves)

\* validateAndApplyMoves, given the generator's output for the state and the
\* sorted copies of its sequences.
ValidateAgainst(state, moves, legalMoveSequences, legalKeys) ==
  IF state.phase # "moving" THEN Failure(state, "Not in moving phase")
  ELSE IF Len(state.unusedDice) = 0 THEN Failure(state, "No dice available to use")
  ELSE IF Len(moves) = 0
    THEN IF legalMoveSequences = {}
           THEN Success(state)
           ELSE Failure(state, "Must make a legal move when available")
  ELSE IF ~IsLegalSequence(legalKeys, moves)
    THEN Failure(state, "Invalid move sequence")
  ELSE ApplyMoves(state, state, moves)

validateAndApplyMoves(state, moves) ==
  LET legalMoveSequences == getLegalMoves(state)
  IN ValidateAgainst(state, moves, legalMoveSequences, LegalKeys(legalMoveSequences))

(***************************************************************************)
(* types.ts : asymmetric roles                                             *)
(***************************************************************************)
\* asymmetricRoles undefined.
NoRoles == [white |-> "none", black |-> "none"]

Roles(w, b) == [white |-> w, black |-> b]

playerHasAsymmetricRole(roles, player, role) == roles[player] = role

\* The one player holding the role, or "none" (null) when neither or both do.
getSingleAsymmetricRolePlayer(roles, role) ==
  LET whiteHasRole == roles.white = role
      blackHasRole == roles.black = role
  IN IF whiteHasRole = blackHasRole THEN "none"
     ELSE IF whiteHasRole THEN "white" ELSE "black"

\* A faulty variant of isValidAsymmetricRoles: every pairing is let through.
isValidAsymmetricRolesAlways(roles) == TRUE

isValidAsymmetricRoles(roles) ==
  roles.white = "foresight" \/ roles.black = "foresight"

\* The legacy form of a roles config, { foresightPlayer, doublingPlayer }.
LegacyRoles(f, d) == [foresightPlayer |-> f, doublingPlayer |-> d]

\* normalizeAsymmetricRoles: undefined for no config and for a legacy config
\* that leaves a player without a role.
normalizeAsymmetricRoles(roles) ==
  IF roles = NoRoles THEN NoRoles
  ELSE IF {"white", "black"} \subseteq DOMAIN roles
    THEN Roles(roles.white, roles.black)
  ELSE IF {"foresightPlayer", "doublingPlayer"} \subseteq DOMAIN roles
    THEN LET whiteRole == IF roles.foresightPlayer = "white" THEN "foresight"
                          ELSE IF roles.doublingPlayer = "white" THEN "doubling"
                          ELSE "none"
             blackRole == IF roles.foresightPlayer = "black" THEN "foresight"
                          ELSE IF roles.doublingPlayer = "black" THEN "doubling"
                          ELSE "none"
         IN IF whiteRole = "none" \/ blackRole = "none" THEN NoRoles
            ELSE Roles(whiteRole, blackRole)
  ELSE NoRoles

\* The two outcomes of randomAsymmetricRoles().
randomAsymmetricRoles ==
  {Roles("foresight", "doubling"), Roles("doubling", "foresight")}

(***************************************************************************)
(* game.ts : the turn/game state machine                                   *)
(***************************************************************************)
Dice(d1, d2) == [die1 |-> d1, die2 |-> d2]

getAsymmetricCubeOwner(roles) ==
  IF roles = NoRoles THEN "none"
  ELSE getSingleAsymmetricRolePlayer(roles, "doubling")

\* createGame(config) for a config it accepts (see createGameThrows).
createGame(config) ==
  [variant |-> config.variant,
   board |-> createInitialBoard,
   currentPlayer |-> "white",
   phase |-> "setup",
   whiteDice |-> NoDice,
   blackDice |-> NoDice,
   unusedDice |-> <<>>,
   doublingCube |-> [value |-> 1,
                     owner |-> IF config.variant = "asymmetric"
                                    /\ normalizeAsymmetricRoles(config.asymmetricRoles) # NoRoles
                                 THEN getAsymmetricCubeOwner(normalizeAsymmetricRoles(config.asymmetricRoles))
                                 ELSE "none"],
   stakes |-> 1,
   doubleOfferedThisTurn |-> FALSE,
   asymmetricRoles |-> IF config.variant = "asymmetric"
                         THEN normalizeAsymmetricRoles(config.asymmetricRoles) ELSE NoRoles,
   whiteOff |-> 0,
   blackOff |-> 0,
   moveHistory |-> <<>>,
   winner |-> "none",
   winType |-> "none",
   pointsAwarded |-> 0]

\* createGame throws 'Invalid asymmetric roles' for these configs.
createGameThrows(config) ==
  /\ config.variant = "asymmetric"
  /\ normalizeAsymmetricRoles(config.asymmetricRoles) # NoRoles
  /\ ~isValidAsymmetricRoles(normalizeAsymmetricRoles(config.asymmetricRoles))

\* index.ts, createMatch: the roles it settles on; randomRoles is the outcome
\* of randomAsymmetricRoles().
createMatchRoles(config, randomRoles) ==
  LET normalizedRoles == normalizeAsymmetricRoles(config.asymmetricRoles)
  IN IF config.variant = "asymmetric"
       THEN IF normalizedRoles # NoRoles THEN normalizedRoles ELSE randomRoles
       ELSE NoRoles

\* createMatch throws 'Invalid asymmetric roles' for these configs.
createMatchThrows(config, randomRoles) ==
  LET roles == createMatchRoles(config, randomRoles)
  IN roles # NoRoles /\ ~isValidAsymmetricRoles(roles)

\* createMatch(config) for a config it accepts.
createMatch(config, randomRoles) ==
  [config |-> config,
   score |-> [white |-> 0, black |-> 0],
   currentGame |-> 1,
   winner |-> "none",
   crawfordGame |-> FALSE,
   postCrawford |-> FALSE,
   asymmetricRoles |-> createMatchRoles(config, randomRoles)]

\* A faulty variant of updateMatchScore: a Crawford game is flagged again
\* after the Crawford game has been played.
updateMatchScoreRepeatingCrawford(match, winner, points) ==
  LET newScore == [white |-> match.score.white + (IF winner = "white" THEN points ELSE 0),
                   black |-> match.score.black + (IF winner = "black" THEN points ELSE 0)]
      hasTarget == match.config.type = "limited" /\ match.config.targetScore # 0
      matchWinner == IF hasTarget /\ newScore.white >= match.config.targetScore THEN "white"
                     ELSE IF hasTarget /\ newScore.black >= match.config.targetScore THEN "black"
                     ELSE "none"
      needsOne == \/ newScore.white = match.config.targetScore - 1
                  \/ newScore.black = match.config.targetScore - 1
      enterCrawford == hasTarget /\ matchWinner = "none" /\ needsOne /\ ~match.crawfordGame
  IN [match EXCEPT
        !.score = newScore,
        !.currentGame = match.currentGame + 1,
        !.winner = matchWinner,
        !.crawfordGame = enterCrawford,
        !.postCrawford = match.postCrawford
                         \/ (hasTarget /\ matchWinner = "none" /\ ~enterCrawford /\ match.crawfordGame)]

\* A faulty variant of updateMatchScore: a limited match is won only by
\* passing the target score.
updateMatchScorePastTarget(match, winner, points) ==
  LET newScore == [white |-> match.score.white + (IF winner = "white" THEN points ELSE 0),
                   black |-> match.score.black + (IF winner = "black" THEN points ELSE 0)]
      hasTarget == match.config.type = "limited" /\ match.config.targetScore # 0
      matchWinner == IF hasTarget /\ newScore.white > match.config.targetScore THEN "white"
                     ELSE IF hasTarget /\ newScore.black > match.config.targetScore THEN "black"
                     ELSE "none"
      needsOne == \/ newScore.white = match.config.targetScore - 1
                  \/ newScore.black = match.config.targetScore - 1
      enterCrawford == /\ hasTarget /\ matchWinner = "none" /\ needsOne
                       /\ ~match.crawfordGame /\ ~match.postCrawford
  IN [match EXCEPT
        !.score = newScore,
        !.currentGame = match.currentGame + 1,
        !.winner = matchWinner,
        !.crawfordGame = enterCrawford,
        !.postCrawford = match.postCrawford
                         \/ (hasTarget /\ matchWinner = "none" /\ ~enterCrawford /\ match.crawfordGame)]

\* index.ts, updateMatchScore; a target score of 0 stands for none given.
updateMatchScore(match, winner, points) ==
  LET newScore == [white |-> match.score.white + (IF winner = "white" THEN points ELSE 0),
                   black |-> match.score.black + (IF winner = "black" THEN points ELSE 0)]
      hasTarget == match.config.type = "limited" /\ match.config.targetScore # 0
      matchWinner == IF hasTarget /\ newScore.white >= match.config.targetScore THEN "white"
                     ELSE IF hasTarget /\ newScore.black >= match.config.targetScore THEN "black"
                     ELSE "none"
      needsOne == \/ newScore.white = match.config.targetScore - 1
                  \/ newScore.black = match.config.targetScore - 1
      enterCrawford == /\ hasTarget /\ matchWinner = "none" /\ needsOne
                       /\ ~match.crawfordGame /\ ~match.postCrawford
  IN [match EXCEPT
        !.score = newScore,
        !.currentGame = match.currentGame + 1,
        !.winner = matchWinner,
        !.crawfordGame = enterCrawford,
        !.postCrawford = match.postCrawford
                         \/ (hasTarget /\ matchWinner = "none" /\ ~enterCrawford /\ match.crawfordGame)]

\* canDoubleInMatch without its Crawford test.
canDoubleInMatchIgnoringCrawford(match, currentPlayer, cubeValue, cubeOwner) ==
  IF match.config.type = "unlimited"
    THEN cubeOwner = "none" \/ cubeOwner = currentPlayer
  ELSE IF /\ match.config.targetScore # 0
          /\ match.score[currentPlayer] + cubeValue >= match.config.targetScore THEN FALSE
  ELSE cubeOwner = "none" \/ cubeOwner = currentPlayer

\* canDoubleInMatch without its test of the score against the target.
canDoubleInMatchIgnoringScore(match, currentPlayer, cubeValue, cubeOwner) ==
  IF match.config.type = "unlimited"
    THEN cubeOwner = "none" \/ cubeOwner = currentPlayer
  ELSE IF match.crawfordGame THEN FALSE
  ELSE cubeOwner = "none" \/ cubeOwner = currentPlayer

\* index.ts, canDoubleInMatch.
canDoubleInMatch(match, currentPlayer, cubeValue, cubeOwner) ==
  IF match.config.type = "unlimited"
    THEN cubeOwner = "none" \/ cubeOwner = currentPlayer
  ELSE IF match.crawfordGame THEN FALSE
  ELSE IF /\ match.config.targetScore # 0
          /\ match.score[currentPlayer] + cubeValue >= match.config.targetScore THEN FALSE
  ELSE cubeOwner = "none" \/ cubeOwner = currentPlayer

\* A faulty variant of canOfferDoubleNow: the standard variant is not held to
\* phase rolling.
canOfferDoubleNowAnyPhase(match, state, currentPlayer) ==
  IF Len(state.moveHistory) = 0 THEN FALSE
  ELSE IF state.doublingCube.value >= 64 THEN FALSE
  ELSE IF ~canDoubleInMatch(match, currentPlayer, state.doublingCube.value,
                            state.doublingCube.owner) THEN FALSE
  ELSE IF state.variant = "asymmetric"
    THEN IF state.asymmetricRoles = NoRoles THEN FALSE
         ELSE IF /\ getSingleAsymmetricRolePlayer(state.asymmetricRoles, "doubling") # "none"
                 /\ ~playerHasAsymmetricRole(state.asymmetricRoles, currentPlayer, "doubling")
           THEN FALSE
         ELSE IF /\ getSingleAsymmetricRolePlayer(state.asymmetricRoles, "doubling") = "none"
                 /\ state.doublingCube.owner # "none"
                 /\ state.doublingCube.owner # currentPlayer
           THEN FALSE
         ELSE IF state.doubleOfferedThisTurn THEN FALSE
         ELSE state.phase = "moving"
  ELSE state.doublingCube.owner = "none" \/ state.doublingCube.owner = currentPlayer

\* index.ts, canOfferDoubleNow.
canOfferDoubleNow(match, state, currentPlayer) ==
  IF Len(state.moveHistory) = 0 THEN FALSE
  ELSE IF state.doublingCube.value >= 64 THEN FALSE
  ELSE IF ~canDoubleInMatch(match, currentPlayer, state.doublingCube.value,
                            state.doublingCube.owner) THEN FALSE
  ELSE IF state.variant = "asymmetric"
    THEN IF state.asymmetricRoles = NoRoles THEN FALSE
         ELSE IF /\ getSingleAsymmetricRolePlayer(state.asymmetricRoles, "doubling") # "none"
                 /\ ~playerHasAsymmetricRole(state.asymmetricRoles, currentPlayer, "doubling")
           THEN FALSE
         ELSE IF /\ getSingleAsymmetricRolePlayer(state.asymmetricRoles, "doubling") = "none"
                 /\ state.doublingCube.owner # "none"
                 /\ state.doublingCube.owner # currentPlayer
           THEN FALSE
         ELSE IF state.doubleOfferedThisTurn THEN FALSE
         ELSE state.phase = "moving"
  ELSE IF state.phase # "rolling" THEN FALSE
  ELSE state.doublingCube.owner = "none" \/ state.doublingCube.owner = currentPlayer

\* rollForFirst, asymmetric branch: randomRoles is the outcome of
\* randomAsymmetricRoles(), coin the player the coin flip names.
rollForFirstAsymmetric(state, randomRoles, coin) ==
  LET roles == IF state.asymmetricRoles # NoRoles THEN state.asymmetricRoles ELSE randomRoles
      singleForesightPlayer == getSingleAsymmetricRolePlayer(roles, "foresight")
      firstPlayer == IF singleForesightPlayer # "none" THEN singleForesightPlayer ELSE coin
  IN [state EXCEPT
        !.currentPlayer = firstPlayer,
        !.phase = "rolling",
        !.whiteDice = NoDice,
        !.blackDice = NoDice,
        !.asymmetricRoles = roles,
        !.doublingCube.owner = getAsymmetricCubeOwner(roles)]

\* rollForFirst, standard branch, for the first pair of dice that differ
\* (a tie calls rollForFirst again).
rollForFirstStandard(state, whiteDie, blackDie) ==
  [state EXCEPT
     !.currentPlayer = IF whiteDie > blackDie THEN "white" ELSE "black",
     !.phase = "rolling",
     !.whiteDice = Dice(whiteDie, whiteDie),
     !.blackDice = Dice(blackDie, blackDie)]

\* rollForFirst throws for these states.
rollForFirstError(state) ==
  IF state.phase # "setup" THEN "Can only roll for first in setup phase"
  ELSE IF /\ state.variant = "asymmetric"
          /\ state.asymmetricRoles # NoRoles
          /\ ~isValidAsymmetricRoles(state.asymmetricRoles)
    THEN "Invalid asymmetric roles: Doubling vs Doubling is not allowed"
  ELSE ""

\* A faulty variant of rollForFirstDice: a tie is not rolled again.
rollForFirstDiceKeepingTies(faces) == faces \X faces

\* The pairs <<whiteDie, blackDie>> the standard branch goes on with: a tie
\* calls rollForFirst again.
rollForFirstDice(faces) == {pair \in faces \X faces : pair[1] # pair[2]}

\* The states rollForFirst may return.
rollForFirstResults(state, faces) ==
  IF state.variant = "asymmetric"
    THEN {rollForFirstAsymmetric(state, randomRoles, coin) :
            randomRoles \in randomAsymmetricRoles, coin \in Players}
    ELSE {rollForFirstStandard(state, pair[1], pair[2]) : pair \in rollForFirstDice(faces)}

\* rollTurn: currentDice is what the mover's roll gives (rollDiceNoDoubles on
\* the opening turn), rolledOpponent what rollDice() gives for the opponent
\* when the foresight branch rolls it.
rollTurn(state, currentDice, rolledOpponent) ==
  LET currentPlayer == state.currentPlayer
      opponent == getOpponent(currentPlayer)
      openingTurn == Len(state.moveHistory) = 0
  IN IF state.variant = "asymmetric" /\ state.asymmetricRoles # NoRoles
       THEN LET roles == state.asymmetricRoles
                currentIsForesight == playerHasAsymmetricRole(roles, currentPlayer, "foresight")
                opponentIsForesight == playerHasAsymmetricRole(roles, opponent, "foresight")
            IN IF currentIsForesight
                 THEN LET existingOpponentDice == IF opponent = "white" THEN state.whiteDice ELSE state.blackDice
                          shouldRollOpponentDiceNow ==
                            ~opponentIsForesight \/ openingTurn \/ existingOpponentDice = NoDice
                          opponentDice == IF shouldRollOpponentDiceNow THEN rolledOpponent ELSE existingOpponentDice
                      IN [state EXCEPT
                            !.whiteDice = IF currentPlayer = "white" THEN currentDice ELSE opponentDice,
                            !.blackDice = IF currentPlayer = "black" THEN currentDice ELSE opponentDice,
                            !.unusedDice = getDiceValues(currentDice),
                            !.phase = "moving"]
                 ELSE [state EXCEPT
                         !.whiteDice = IF currentPlayer = "white" THEN currentDice ELSE @,
                         !.blackDice = IF currentPlayer = "black" THEN currentDice ELSE @,
                         !.unusedDice = getDiceValues(currentDice),
                         !.phase = "moving"]
       ELSE [state EXCEPT
               !.whiteDice = IF currentPlayer = "white" THEN currentDice ELSE @,
               !.blackDice = IF currentPlayer = "black" THEN currentDice ELSE @,
               !.unusedDice = getDiceValues(currentDice),
               !.phase = "moving"]

\* A faulty variant of rollTurnRollsOpponent: nothing is rolled for an
\* opponent who does not hold foresight.
rollTurnRollsOpponentOfForesightOnly(state) ==
  /\ state.variant = "asymmetric" /\ state.asymmetricRoles # NoRoles
  /\ playerHasAsymmetricRole(state.asymmetricRoles, state.currentPlayer, "foresight")
  /\ playerHasAsymmetricRole(state.asymmetricRoles, getOpponent(state.currentPlayer), "foresight")

\* Whether rollTurn consults rollDice() for the opponent in this state.
rollTurnRollsOpponent(state) ==
  /\ state.variant = "asymmetric" /\ state.asymmetricRoles # NoRoles
  /\ playerHasAsymmetricRole(state.asymmetricRoles, state.currentPlayer, "foresight")
  /\ LET opponent == getOpponent(state.currentPlayer)
     IN \/ ~playerHasAsymmetricRole(state.asymmetricRoles, opponent, "foresight")
        \/ Len(state.moveHistory) = 0
        \/ (IF opponent = "white" THEN state.whiteDice ELSE state.blackDice) = NoDice

\* A faulty variant of determineWinType: every win against a player who has
\* borne off nothing is a gammon.
determineWinTypeWithoutBackgammon(state, winner) ==
  LET loser == getOpponent(winner)
      loserOff == IF loser = "white" THEN state.whiteOff ELSE state.blackOff
  IN IF loserOff > 0 THEN "normal" ELSE "gammon"

determineWinType(state, winner) ==
  LET loser == getOpponent(winner)
      loserOff == IF loser = "white" THEN state.whiteOff ELSE state.blackOff
      homeStart == IF winner = "white" THEN 1 ELSE 19
      homeEnd == IF winner = "white" THEN 6 ELSE 24
  IN IF loserOff > 0 THEN "normal"
     ELSE IF hasCheckersOnBar(state.board, loser) THEN "backgammon"
     ELSE IF \E point \in homeStart..homeEnd :
               /\ state.board[point] # NoStack
               /\ state.board[point].player = loser
               /\ state.board[point].count > 0
       THEN "backgammon"
     ELSE "gammon"

\* checkWinner: the winner record, with player "none" for null.
checkWinner(state) ==
  IF state.whiteOff = 15
    THEN [player |-> "white", type |-> determineWinType(state, "white")]
  ELSE IF state.blackOff = 15
    THEN [player |-> "black", type |-> determineWinType(state, "black")]
  ELSE [player |-> "none", type |-> "none"]

Turn(player, dice, moves) == [player |-> player, dice |-> dice, moves |-> moves]

\* A faulty variant of FinishWithWinner: the phase is left as it is.
FinishWithWinnerKeepingPhase(newState, winner) ==
  [newState EXCEPT
     !.winner = winner.player,
     !.winType = winner.type,
     !.pointsAwarded = newState.doublingCube.value
                       * (IF winner.type = "normal" THEN 1
                          ELSE IF winner.type = "gammon" THEN 2 ELSE 3)]

\* makeMove's winner branch.
FinishWithWinner(newState, winner) ==
  [newState EXCEPT
     !.winner = winner.player,
     !.winType = winner.type,
     !.phase = "gameOver",
     !.pointsAwarded = newState.doublingCube.value
                       * (IF winner.type = "normal" THEN 1
                          ELSE IF winner.type = "gammon" THEN 2 ELSE 3)]

\* A faulty variant of HandOverAsymmetric: nothing is rolled for the player
\* who has just moved.
HandOverAsymmetricWithoutReroll(state, newState, rolledForNext, rolledForMoved) ==
  LET roles == state.asymmetricRoles
      movedPlayer == state.currentPlayer
      nextPlayer == getOpponent(movedPlayer)
      bothForesight == /\ playerHasAsymmetricRole(roles, movedPlayer, "foresight")
                       /\ playerHasAsymmetricRole(roles, nextPlayer, "foresight")
      s1 == IF movedPlayer = "white" THEN [newState EXCEPT !.whiteDice = NoDice]
            ELSE [newState EXCEPT !.blackDice = NoDice]
      nextPlayerDice == IF nextPlayer = "white" THEN s1.whiteDice ELSE s1.blackDice
      s2 == IF bothForesight /\ nextPlayerDice = NoDice
              THEN (IF nextPlayer = "white" THEN [s1 EXCEPT !.whiteDice = rolledForNext]
                    ELSE [s1 EXCEPT !.blackDice = rolledForNext])
              ELSE s1
      s3 == s2
      nextDice == IF nextPlayer = "white" THEN s3.whiteDice ELSE s3.blackDice
  IN IF nextDice # NoDice
       THEN [s3 EXCEPT !.phase = "moving", !.unusedDice = getDiceValues(nextDice)]
       ELSE [s3 EXCEPT !.phase = "rolling", !.unusedDice = <<>>,
                       !.whiteDice = NoDice, !.blackDice = NoDice]

\* makeMove's asymmetric hand-over: rolledForNext and rolledForMoved are what
\* rollDice() gives in the foresight-vs-foresight branch when it is consulted.
HandOverAsymmetric(state, newState, rolledForNext, rolledForMoved) ==
  LET roles == state.asymmetricRoles
      movedPlayer == state.currentPlayer
      nextPlayer == getOpponent(movedPlayer)
      bothForesight == /\ playerHasAsymmetricRole(roles, movedPlayer, "foresight")
                       /\ playerHasAsymmetricRole(roles, nextPlayer, "foresight")
      s1 == IF movedPlayer = "white" THEN [newState EXCEPT !.whiteDice = NoDice]
            ELSE [newState EXCEPT !.blackDice = NoDice]
      nextPlayerDice == IF nextPlayer = "white" THEN s1.whiteDice ELSE s1.blackDice
      s2 == IF bothForesight /\ nextPlayerDice = NoDice
              THEN (IF nextPlayer = "white" THEN [s1 EXCEPT !.whiteDice = rolledForNext]
                    ELSE [s1 EXCEPT !.blackDice = rolledForNext])
              ELSE s1
      movedPlayerNextDice == IF movedPlayer = "white" THEN s2.whiteDice ELSE s2.blackDice
      s3 == IF bothForesight /\ movedPlayerNextDice = NoDice
              THEN (IF movedPlayer = "white" THEN [s2 EXCEPT !.whiteDice = rolledForMoved]
                    ELSE [s2 EXCEPT !.blackDice = rolledForMoved])
              ELSE s2
      nextDice == IF nextPlayer = "white" THEN s3.whiteDice ELSE s3.blackDice
  IN IF nextDice # NoDice
       THEN [s3 EXCEPT !.phase = "moving", !.unusedDice = getDiceValues(nextDice)]
       ELSE [s3 EXCEPT !.phase = "rolling", !.unusedDice = <<>>,
                       !.whiteDice = NoDice, !.blackDice = NoDice]

\* makeMove's turn-complete branch, on the state validateAndApplyMoves built.
CompleteTurn(state, applied, moves, rolledForNext, rolledForMoved) ==
  LET dice == IF state.currentPlayer = "white" THEN state.whiteDice ELSE state.blackDice
      recorded == [applied EXCEPT
                     !.moveHistory = Append(@, Turn(state.currentPlayer, dice, moves))]
      winner == checkWinner(recorded)
  IN IF winner.player # "none"
       THEN FinishWithWinner(recorded, winner)
     ELSE
       LET switched == [recorded EXCEPT !.currentPlayer = getOpponent(state.currentPlayer)]
           handed == IF state.variant = "asymmetric" /\ state.asymmetricRoles # NoRoles
                       THEN HandOverAsymmetric(state, switched, rolledForNext, rolledForMoved)
                       ELSE [switched EXCEPT !.phase = "rolling", !.unusedDice = <<>>,
                                             !.whiteDice = NoDice, !.blackDice = NoDice]
       IN [handed EXCEPT !.doubleOfferedThisTurn = FALSE]

\* makeMove, given the result of validateAndApplyMoves(state, moves).
MakeMoveOn(state, result, moves, rolledForNext, rolledForMoved) ==
  IF ~result.valid \/ ~result.hasNewState THEN result
  ELSE LET allDiceUsed == Len(result.newState.unusedDice) = 0
           hasMoreMoves == hasLegalMoves(result.newState)
       IN IF allDiceUsed \/ ~hasMoreMoves
            THEN Success(CompleteTurn(state, result.newState, moves, rolledForNext, rolledForMoved))
            ELSE result

makeMove(state, moves, rolledForNext, rolledForMoved) ==
  MakeMoveOn(state, validateAndApplyMoves(state, moves), moves, rolledForNext, rolledForMoved)

\* Whether makeMove's hand-over would consult rollDice() (foresight vs foresight).
makeMoveRolls(state) ==
  /\ state.variant = "asymmetric" /\ state.asymmetricRoles # NoRoles
  /\ state.asymmetricRoles.white = "foresight" /\ state.asymmetricRoles.black = "foresight"

\* Whether it would consult it for the player moving next as well.
makeMoveRollsNext(state) ==
  /\ makeMoveRolls(state)
  /\ (IF state.currentPlayer = "white" THEN state.blackDice ELSE state.whiteDice) = NoDice

(***************************************************************************)
(* game.ts : the doubling cube                                             *)
(***************************************************************************)
\* The error offerDouble throws, or "" when it returns a state.
\* A faulty variant of cubeOwnedByOpponent: ownership is not looked at.
cubeOwnershipIgnored(state) == FALSE

\* cube.owner !== null && cube.owner !== state.currentPlayer
cubeOwnedByOpponent(state) ==
  state.doublingCube.owner # "none" /\ state.doublingCube.owner # state.currentPlayer

\* A faulty variant of offeredThisTurn: the flag is not looked at.
offeredThisTurnIgnored(state) == FALSE

\* state.doubleOfferedThisTurn, as offerDouble reads it.
offeredThisTurn(state) == state.doubleOfferedThisTurn

\* A faulty variant of cubeAtMaximum: the cube has no maximum.
cubeNeverAtMaximum(state) == FALSE

\* cube.value >= 64
cubeAtMaximum(state) == state.doublingCube.value >= 64

offerDoubleError(state) ==
  LET validPhase == IF state.variant = "asymmetric"
                      THEN state.phase = "rolling" \/ state.phase = "moving"
                      ELSE state.phase = "rolling"
      cube == state.doublingCube
      notOwner == cubeOwnedByOpponent(state)
  IN IF ~validPhase THEN "Can only double at the start of your turn"
     ELSE IF state.variant = "asymmetric" /\ state.asymmetricRoles # NoRoles
       THEN LET fixedDoublingPlayer == getSingleAsymmetricRolePlayer(state.asymmetricRoles, "doubling")
            IN IF fixedDoublingPlayer # "none" /\ state.currentPlayer # fixedDoublingPlayer
                 THEN "Only doubling player can double in asymmetric variant"
               ELSE IF fixedDoublingPlayer = "none" /\ notOwner
                 THEN "You do not own the doubling cube"
               ELSE IF offeredThisTurn(state)
                 THEN "Can only offer double once per turn"
               ELSE IF cubeAtMaximum(state) THEN "Cube is already at maximum value"
               ELSE ""
     ELSE IF notOwner THEN "You do not own the doubling cube"
     ELSE IF cubeAtMaximum(state) THEN "Cube is already at maximum value"
     ELSE ""

\* The state offerDouble returns when it does not throw.
offerDouble(state) ==
  [state EXCEPT
     !.doublingCube = [value |-> state.doublingCube.value * 2,
                       owner |-> state.doublingCube.owner],
     !.doubleOfferedThisTurn = (state.variant = "asymmetric")]

\* A faulty variant of respondToDouble: an accepted double always hands the
\* cube to the opponent of the current player.
respondToDoubleAlwaysTransfers(state, accept) ==
  IF ~accept
    THEN [state EXCEPT
            !.winner = state.currentPlayer,
            !.winType = "normal",
            !.phase = "gameOver",
            !.pointsAwarded = IF state.doublingCube.value \div 2 >= 1
                                THEN state.doublingCube.value \div 2 ELSE 1]
    ELSE [state EXCEPT
            !.stakes = state.doublingCube.value,
            !.doublingCube.owner = getOpponent(state.currentPlayer)]

\* A faulty variant of respondToDouble: a decline awards the cube value as it stands.
respondToDoubleCurrentValue(state, accept) ==
  IF ~accept
    THEN [state EXCEPT
            !.winner = state.currentPlayer,
            !.winType = "normal",
            !.phase = "gameOver",
            !.pointsAwarded = state.doublingCube.value]
    ELSE [state EXCEPT
            !.stakes = state.doublingCube.value,
            !.doublingCube.owner = getOpponent(state.currentPlayer)]

\* A faulty variant of respondToDouble: an accepted double moves the cube
\* and leaves the stakes as they were.
respondToDoubleKeepingStakes(state, accept) ==
  IF ~accept
    THEN LET half == state.doublingCube.value \div 2
             priorCubeValue == IF half > 1 THEN half ELSE 1
         IN [state EXCEPT
               !.winner = state.currentPlayer,
               !.winType = "normal",
               !.phase = "gameOver",
               !.pointsAwarded = priorCubeValue]
  ELSE IF state.variant = "asymmetric" /\ state.asymmetricRoles # NoRoles
    THEN IF getSingleAsymmetricRolePlayer(state.asymmetricRoles, "doubling") = "none"
           THEN [state EXCEPT
                   !.doublingCube.owner = getOpponent(state.currentPlayer)]
           ELSE [state EXCEPT
                   !.doublingCube.owner = getAsymmetricCubeOwner(state.asymmetricRoles)]
  ELSE [state EXCEPT
          !.doublingCube.owner = getOpponent(state.currentPlayer)]

respondToDouble(state, accept) ==
  IF ~accept
    THEN LET half == state.doublingCube.value \div 2
             priorCubeValue == IF half > 1 THEN half ELSE 1
         IN [state EXCEPT
               !.winner = state.currentPlayer,
               !.winType = "normal",
               !.phase = "gameOver",
               !.pointsAwarded = priorCubeValue]
  ELSE IF state.variant = "asymmetric" /\ state.asymmetricRoles # NoRoles
    THEN IF getSingleAsymmetricRolePlayer(state.asymmetricRoles, "doubling") = "none"
           THEN [state EXCEPT
                   !.stakes = state.doublingCube.value,
                   !.doublingCube.owner = getOpponent(state.currentPlayer)]
           ELSE [state EXCEPT
                   !.stakes = state.doublingCube.value,
                   !.doublingCube.owner = getAsymmetricCubeOwner(state.asymmetricRoles)]
  ELSE [state EXCEPT
          !.stakes = state.doublingCube.value,
          !.doublingCube.owner = getOpponent(state.currentPlayer)]

\* calculateScore: 0 when the game has no winner or no win type.
calculateScore(state) ==
  IF state.winner = "none" \/ state.winType = "none" THEN 0
  ELSE LET baseScore == state.stakes
       IN IF state.winType = "normal" THEN baseScore
          ELSE IF state.winType = "gammon" THEN baseScore * 2
          ELSE baseScore * 3

(***************************************************************************)
(* Start states                                                            *)
(***************************************************************************)
\* The configs createGame is called with.
Configs ==
  {[variant |-> "standard", asymmetricRoles |-> NoRoles]}
  \cup {[variant |-> "asymmetric", asymmetricRoles |-> r]
          : r \in {NoRoles, Roles("foresight", "doubling"), Roles("doubling", "foresight"),
                   Roles("foresight", "foresight"), Roles("doubling", "doubling")}
                  \cup {LegacyRoles(f, d) : f \in Players, d \in Players}}

\* A board from the stacks of each player, given as <<point, count>> pairs.
BoardOf(whiteStacks, blackStacks) ==
  [pt \in 0..25 |->
     IF \E e \in whiteStacks : e[1] = pt
       THEN Stack("white", (CHOOSE e \in whiteStacks : e[1] = pt)[2])
     ELSE IF \E e \in blackStacks : e[1] = pt
       THEN Stack("black", (CHOOSE e \in blackStacks : e[1] = pt)[2])
     ELSE NoStack]

Position(board, whiteOff, blackOff) ==
  [board |-> board, whiteOff |-> whiteOff, blackOff |-> blackOff]

\* The position with the colours exchanged: point pt becomes 25 - pt.
Mirror(pos) ==
  [board |-> [pt \in 0..25 |->
                IF pos.board[25 - pt] = NoStack THEN NoStack
                ELSE Stack(getOpponent(pos.board[25 - pt].player), pos.board[25 - pt].count)],
   whiteOff |-> pos.blackOff,
   blackOff |-> pos.whiteOff]

\* Mid-game positions handed to the engine, as the repository's tests hand it
\* hand-built states (test.ts, testPassWhenNoLegalMoves).  Each holds 15
\* checkers per player, off-counts included.
PositionList ==
  << \* the initial board
     Position(createInitialBoard, 0, 0),
     \* white with two checkers on the bar; entry with 6 and 5 blocked, a black blot on 22
     Position(BoardOf({<<0, 2>>, <<13, 3>>, <<8, 3>>, <<6, 5>>, <<4, 2>>},
                      {<<19, 4>>, <<20, 3>>, <<22, 1>>, <<17, 3>>, <<12, 3>>, <<1, 1>>}), 0, 0),
     \* white on the bar facing a closed board; black on the bar too
     Position(BoardOf({<<0, 1>>, <<6, 5>>, <<5, 4>>, <<4, 3>>, <<3, 2>>},
                      {<<19, 2>>, <<20, 2>>, <<21, 2>>, <<22, 2>>, <<23, 2>>, <<24, 2>>,
                       <<25, 1>>, <<12, 2>>}), 0, 0),
     \* a bear-off race without contact
     Position(BoardOf({<<6, 2>>, <<5, 1>>, <<3, 2>>, <<1, 1>>},
                      {<<19, 2>>, <<22, 1>>, <<24, 2>>}), 9, 10),
     \* white bearing off against a black anchor and blot in its home board
     Position(BoardOf({<<6, 2>>, <<4, 1>>, <<2, 2>>},
                      {<<5, 2>>, <<3, 1>>, <<19, 5>>, <<20, 4>>, <<21, 3>>}), 10, 0),
     \* one checker from the end: gammon
     Position(BoardOf({<<2, 1>>}, {<<19, 5>>, <<20, 5>>, <<21, 5>>}), 14, 0),
     \* one checker from the end: backgammon
     Position(BoardOf({<<2, 1>>}, {<<4, 2>>, <<19, 5>>, <<20, 5>>, <<21, 3>>}), 14, 0),
     \* both sides close to the end
     Position(BoardOf({<<4, 1>>, <<2, 2>>}, {<<23, 1>>, <<24, 1>>}), 12, 13),
     \* one die playable but not both: a lone white runner on 13, point 2 held
     Position(BoardOf({<<13, 1>>, <<4, 4>>, <<3, 5>>, <<1, 5>>},
                      {<<2, 2>>, <<19, 5>>, <<20, 4>>, <<21, 4>>}), 0, 0),
     \* both dice playable in one order only: white on 13 and 8, point 2 held
     Position(BoardOf({<<13, 1>>, <<8, 1>>, <<4, 4>>, <<3, 4>>, <<1, 5>>},
                      {<<2, 2>>, <<19, 5>>, <<20, 4>>, <<21, 4>>}), 0, 0),
     \* three of four equal dice playable: white on 10 and 9, point 1 held
     Position(BoardOf({<<10, 1>>, <<9, 1>>, <<3, 6>>, <<2, 7>>},
                      {<<1, 2>>, <<6, 2>>, <<19, 5>>, <<20, 3>>, <<21, 3>>}), 0, 0),
     \* a prime in front of white's back checkers
     Position(BoardOf({<<24, 2>>, <<6, 5>>, <<5, 4>>, <<4, 4>>},
                      {<<18, 3>>, <<19, 3>>, <<20, 3>>, <<21, 2>>, <<22, 2>>, <<23, 2>>}), 0, 0),
     \* a late race, white ahead
     Position(BoardOf({<<5, 2>>, <<1, 2>>}, {<<20, 3>>, <<23, 2>>, <<18, 1>>}), 11, 9) >>

\* The positions SpecMoves starts from, each also with the colours exchanged.
Positions ==
  LET used == {PositionList[i] : i \in {j \in DOMAIN PositionList : j <= NumPositions}}
  IN used \cup {Mirror(pos) : pos \in used}

\* The game state of a position with the given player about to roll, in the
\* standard variant.  The turns that led to the position are not part of it;
\* moveHistory holds the opponent's last turn as a pass.
PositionState(pos, player) ==
  [createGame([variant |-> "standard", asymmetricRoles |-> NoRoles]) EXCEPT
     !.board = pos.board,
     !.whiteOff = pos.whiteOff,
     !.blackOff = pos.blackOff,
     !.currentPlayer = player,
     !.phase = "rolling",
     !.moveHistory = <<Turn(getOpponent(player), Dice(2, 1), <<>>)>>]

(***************************************************************************)
(* State: the game state the caller holds, the last successful operation   *)
(* with its arguments, the turns completed so far, and the doubles offered *)
(* since the player to move last changed.  Where a match is played,        *)
(* matchLog holds the match states from createMatch to the current one,    *)
(* and session what the match loop or the server keeps beside them.        *)
(***************************************************************************)
VARIABLES game, last, turnsPlayed, offersThisTurn, matchLog, session

vars == <<game, last, turnsPlayed, offersThisTurn, matchLog, session>>

\* Outside a match loop and the server there is no session.
NoSession ==
  [mode |-> "none", pendingDoubleOfferer |-> "none", matchOver |-> FALSE,
   nextGameScheduled |-> FALSE, updates |-> 0,
   botThinking |-> FALSE, botQueued |-> FALSE, botInFlight |-> 0,
   botPhase |-> "idle", botRun |-> <<>>]

\* offeredAt: for offerDouble, the cube value before the offer; for
\* respondToDouble, that value when the operation before it was a successful
\* offerDouble and 0 otherwise.
Op(name, moves, accept, offeredAt) ==
  [op |-> name, moves |-> moves, accept |-> accept, offeredAt |-> offeredAt]

InitGame ==
  /\ \E config \in Configs :
       /\ ~createGameThrows(config)
       /\ game = createGame(config)
  /\ last = Op("createGame", <<>>, FALSE, 0)
  /\ turnsPlayed = 0
  /\ offersThisTurn = 0
  /\ matchLog = <<>>
  /\ session = NoSession

InitMoves ==
  /\ \E pos \in Positions, player \in Players :
       /\ game = PositionState(pos, player)
  /\ last = Op("position", <<>>, FALSE, 0)
  /\ turnsPlayed = 0
  /\ offersThisTurn = 0
  /\ matchLog = <<>>
  /\ session = NoSession

(***************************************************************************)
(* Actions: one per engine operation.  An operation that throws or returns *)
(* valid = false leaves the caller's state as it is, so its action is not  *)
(* enabled.                                                                *)
(***************************************************************************)
AllDice(faces) == {Dice(d1, d2) : d1 \in faces, d2 \in faces}

RollForFirstWith(faces) ==
  /\ rollForFirstError(game) = ""
  /\ game' \in rollForFirstResults(game, faces)
  /\ last' = Op("rollForFirst", <<>>, FALSE, 0)
  /\ offersThisTurn' = 0
  /\ UNCHANGED <<turnsPlayed, matchLog, session>>

\* A faulty variant of rollDiceNoDoubles: the first roll is kept as it falls.
rollDiceKeepingDoubles(faces) == AllDice(faces)

\* rollDiceNoDoubles: rolls again until the two dice differ.
rollDiceNoDoubles(faces) == {dice \in AllDice(faces) : dice.die1 # dice.die2}

RollTurnWith(faces) ==
  /\ game.phase = "rolling"
  /\ \E currentDice \in (IF Len(game.moveHistory) = 0 THEN rollDiceNoDoubles(faces)
                          ELSE AllDice(faces)) :
       /\ \E rolledOpponent \in (IF rollTurnRollsOpponent(game) THEN AllDice(faces) ELSE {NoDice}) :
            game' = rollTurn(game, currentDice, rolledOpponent)
  /\ last' = Op("rollTurn", <<>>, FALSE, 0)
  /\ UNCHANGED <<turnsPlayed, offersThisTurn, matchLog, session>>

\* The first two moves exchanged, and the sequence reversed.
SwapFirstTwo(s) == IF Len(s) < 2 THEN s ELSE <<s[2], s[1]>> \o SubSeq(s, 3, Len(s))

Reverse(s) == [i \in 1..Len(s) |-> s[Len(s) + 1 - i]]

\* The sequences a caller submits that makeMove can accept: the generator's
\* sequences, reorderings of them, and the pass.
Submitted(legal) ==
  legal \cup {SwapFirstTwo(s) : s \in legal} \cup {Reverse(s) : s \in legal} \cup {<<>>}

\* What stepAutomatedTurn falls back on: the pass when the generator returns
\* nothing, else the first of its sequences.
Chosen(legal) == IF legal = {} THEN {<<>>} ELSE {CHOOSE seq \in legal : TRUE}

\* The generator's output and the validator's result are bound once per state
\* and per submitted sequence; firstOnly restricts the caller to Chosen.
MakeMoveTaking(faces, firstOnly) ==
  /\ \E legal \in {getLegalMoves(game)} :
     \E legalKeys \in {LegalKeys(legal)} :
     \E moves \in (IF firstOnly THEN Chosen(legal) ELSE Submitted(legal)) :
     \E result \in {ValidateAgainst(game, moves, legal, legalKeys)} :
       /\ result.valid
       /\ \E rolledForNext \in (IF makeMoveRollsNext(game) THEN AllDice(faces) ELSE {NoDice}) :
          \E rolledForMoved \in (IF makeMoveRolls(game) THEN AllDice(faces) ELSE {NoDice}) :
            game' = MakeMoveOn(game, result, moves, rolledForNext, rolledForMoved).newState
       /\ last' = Op("makeMove", moves, FALSE, 0)
  /\ turnsPlayed' = turnsPlayed + (Len(game'.moveHistory) - Len(game.moveHistory))
  /\ offersThisTurn' = IF game'.currentPlayer # game.currentPlayer THEN 0 ELSE offersThisTurn
  /\ UNCHANGED <<matchLog, session>>

MakeMoveWith(faces) == MakeMoveTaking(faces, FALSE)

OfferDouble ==
  /\ offerDoubleError(game) = ""
  /\ game' = offerDouble(game)
  /\ last' = Op("offerDouble", <<>>, FALSE, game.doublingCube.value)
  /\ offersThisTurn' = offersThisTurn + 1
  /\ UNCHANGED <<turnsPlayed, matchLog, session>>

RespondToDouble ==
  /\ \E accept \in BOOLEAN :
       /\ game' = respondToDouble(game, accept)
       /\ last' = Op("respondToDouble", <<>>, accept,
                     IF last.op = "offerDouble" THEN last.offeredAt ELSE 0)
  /\ UNCHANGED <<turnsPlayed, offersThisTurn, matchLog, session>>

RollForFirst == RollForFirstWith(1..MaxDie)

RollTurn == turnsPlayed < MaxTurns /\ RollTurnWith(1..MaxDie)

MakeMove == turnsPlayed < MaxTurns /\ MakeMoveWith(1..MaxDie)

\* Under SpecMoves: the roll and the moves of the turn the position is in.
RollTurnAnyDice == turnsPlayed = 0 /\ RollTurnWith(DieFaces)

MakeMoveAnyDice == turnsPlayed = 0 /\ MakeMoveWith(DieFaces)

\* The engine as stepAutomatedTurn drives it: nothing on a finished game, a
\* pending double is answered before anything else, then an offer, a roll or a
\* move of the current player.
DoublePending == last.op = "offerDouble"

PlayRespondToDouble == game.winner = "none" /\ DoublePending /\ RespondToDouble

PlayOfferDouble == game.winner = "none" /\ ~DoublePending /\ OfferDouble

PlayRollTurn == game.winner = "none" /\ ~DoublePending /\ RollTurn

PlayMakeMove ==
  /\ game.winner = "none" /\ ~DoublePending
  /\ turnsPlayed < MaxTurns
  /\ MakeMoveTaking(1..MaxDie, TRUE)

NextPlay ==
  RollForFirst \/ PlayRespondToDouble \/ PlayOfferDouble \/ PlayRollTurn \/ PlayMakeMove

Next == RollForFirst \/ RollTurn \/ MakeMove \/ OfferDouble \/ RespondToDouble

NextCube == RollForFirst \/ RollTurn \/ OfferDouble \/ RespondToDouble

NextMoves == RollTurnAnyDice \/ MakeMoveAnyDice

\* The configs createMatch is called with: a limited match to a target, or an
\* unlimited one with no target.
MatchConfigs ==
  {[type |-> "limited", targetScore |-> target, variant |-> config.variant,
    asymmetricRoles |-> config.asymmetricRoles]
     : target \in 1..MaxTarget, config \in Configs}
  \cup {[type |-> "unlimited", targetScore |-> 0, variant |-> config.variant,
          asymmetricRoles |-> config.asymmetricRoles] : config \in Configs}

\* The match state the caller holds.
CurrentMatch == matchLog[Len(matchLog)]

\* The first game of a match: rollForFirst has not been called yet.
InitMatch ==
  /\ \E config \in MatchConfigs, randomRoles \in randomAsymmetricRoles :
       /\ ~createMatchThrows(config, randomRoles)
       /\ matchLog = <<createMatch(config, randomRoles)>>
       /\ game = createGame([variant |-> config.variant,
                             asymmetricRoles |-> createMatchRoles(config, randomRoles)])
  /\ last = Op("createMatch", <<>>, FALSE, 0)
  /\ turnsPlayed = 0
  /\ offersThisTurn = 0
  /\ session = NoSession

\* updateMatchScore applied to the match the caller holds, for any winner
\* and points.
UpdateMatchScore ==
  /\ Len(matchLog) <= MaxGames
  /\ \E winner \in Players, points \in 1..MaxPoints :
       matchLog' = Append(matchLog, updateMatchScore(CurrentMatch, winner, points))
  /\ last' = Op("updateMatchScore", <<>>, FALSE, 0)
  /\ UNCHANGED <<game, turnsPlayed, offersThisTurn, session>>

NextMatch == UpdateMatchScore

\* The match from createMatch: updateMatchScore, for any winner and points.
SpecMatch == InitMatch /\ [][NextMatch]_vars

(***************************************************************************)
(* runAutomatedMatch for a limited match, every game returning with a      *)
(* winner: one step per turn of its loop, from runAutomatedGame's return   *)
(* to the updateMatchScore.                                                *)
(***************************************************************************)
InitRunMatch ==
  /\ \E config \in MatchConfigs, randomRoles \in randomAsymmetricRoles :
       /\ config.type = "limited"
       /\ ~createMatchThrows(config, randomRoles)
       /\ matchLog = <<createMatch(config, randomRoles)>>
       /\ game = createGame([variant |-> config.variant,
                             asymmetricRoles |-> createMatchRoles(config, randomRoles)])
  /\ last = Op("createMatch", <<>>, FALSE, 0)
  /\ turnsPlayed = 0
  /\ offersThisTurn = 0
  /\ session = [NoSession EXCEPT !.mode = "loop"]

\* One turn of the loop: the game returns won, with any pointsAwarded, and
\* is scored with pointsAwarded || 1.
RunGameAndScore ==
  /\ CurrentMatch.winner = "none"
  /\ \E winner \in Players, awarded \in 0..MaxPoints :
       /\ game' = [game EXCEPT !.winner = winner, !.winType = "normal",
                                !.phase = "gameOver", !.pointsAwarded = awarded]
       /\ matchLog' = Append(matchLog,
                             updateMatchScore(CurrentMatch, winner,
                                              IF awarded = 0 THEN 1 ELSE awarded))
  /\ last' = Op("updateMatchScore", <<>>, FALSE, 0)
  /\ UNCHANGED <<turnsPlayed, offersThisTurn, session>>

NextRunMatch == RunGameAndScore

SpecRunMatch == InitRunMatch /\ [][NextRunMatch]_vars

\* The loop goes on while the match has no winner.
SpecRunMatchFair == SpecRunMatch /\ WF_vars(RunGameAndScore)

(***************************************************************************)
(* A match played to its end: automation.ts runAutomatedMatch with both    *)
(* players automated (mode "loop"), and the server of                      *)
(* scripts/selfplay/generate-selfplay-data.js with two connected players   *)
(* (mode "server").  session.pendingDoubleOfferer and session.matchOver    *)
(* are theirs; nextGameScheduled says that the game has been scored and    *)
(* the next one is due; updates counts the updateMatchScore calls made for *)
(* the game in play.                                                       *)
(***************************************************************************)
\* advanceAutoFlow runs its loop at most this many times.
AutoFlowIterations == 5

\* The states rollTurn may return.
rollTurnResults(state, faces) ==
  {rollTurn(state, currentDice, rolledOpponent) :
     currentDice \in (IF Len(state.moveHistory) = 0 THEN rollDiceNoDoubles(faces)
                      ELSE AllDice(faces)),
     rolledOpponent \in (IF rollTurnRollsOpponent(state) THEN AllDice(faces) ELSE {NoDice})}

\* The states makeMove may return for a sequence it accepts, none otherwise.
makeMoveResults(state, moves, faces) ==
  IF state.phase # "moving" THEN {}
  ELSE UNION {
    UNION {
      UNION {
        IF ~result.valid THEN {}
        ELSE {MakeMoveOn(state, result, moves, rolledForNext, rolledForMoved).newState :
                rolledForNext \in (IF makeMoveRollsNext(state) THEN AllDice(faces) ELSE {NoDice}),
                rolledForMoved \in (IF makeMoveRolls(state) THEN AllDice(faces) ELSE {NoDice})}
        : result \in {ValidateAgainst(state, moves, legal, legalKeys)}}
      : legalKeys \in {LegalKeys(legal)}}
    : legal \in {getLegalMoves(state)}}

\* tryAutoPass: the states it may leave, and whether it changed anything.
tryAutoPass(state, faces) ==
  IF state.phase # "moving" THEN [changed |-> FALSE, states |-> {state}]
  ELSE IF hasLegalMoves(state) THEN [changed |-> FALSE, states |-> {state}]
  ELSE LET passed == makeMoveResults(state, <<>>, faces)
       IN IF passed = {} THEN [changed |-> FALSE, states |-> {state}]
          ELSE [changed |-> TRUE, states |-> passed]

\* tryAutoRoll: the states it may leave, and whether it changed anything.
tryAutoRoll(state, match, pending, faces) ==
  IF state.phase # "rolling" THEN [changed |-> FALSE, states |-> {state}]
  ELSE IF pending # "none" THEN [changed |-> FALSE, states |-> {state}]
  ELSE IF canOfferDoubleNow(match, state, state.currentPlayer)
    THEN [changed |-> FALSE, states |-> {state}]
  ELSE [changed |-> TRUE, states |-> rollTurnResults(state, faces)]

\* advanceAutoFlow: the states game.state may hold when it returns.
RECURSIVE advanceAutoFlow(_, _, _, _, _)
advanceAutoFlow(state, match, pending, faces, iterations) ==
  IF iterations >= AutoFlowIterations THEN {state}
  ELSE UNION {
    UNION {
      UNION {IF pass.changed \/ roll.changed
               THEN advanceAutoFlow(rolled, match, pending, faces, iterations + 1)
               ELSE {rolled}
             : rolled \in roll.states}
      : roll \in {tryAutoRoll(passed, match, pending, faces) : passed \in pass.states}}
    : pass \in {tryAutoPass(state, faces)}}

\* The configs a match is played from: createMatch draws the roles of an
\* asymmetric match that is given none.
PlayedMatchConfigs ==
  {config \in MatchConfigs :
     config.asymmetricRoles \in {NoRoles, Roles("foresight", "foresight")}}

\* The first game of a match: createGame and rollForFirst.
FirstGames(match, faces) ==
  rollForFirstResults(createGame([variant |-> match.config.variant,
                                  asymmetricRoles |-> match.asymmetricRoles]), faces)

Session(mode) == [NoSession EXCEPT !.mode = mode]

\* runAutomatedMatch entered with a match from createMatch, at the first
\* test of its inner loop; or the server after initializeMatch and the
\* advanceAutoFlow of handleJoinGame.
InitMatchPlay ==
  /\ \E config \in PlayedMatchConfigs, randomRoles \in randomAsymmetricRoles :
       /\ ~createMatchThrows(config, randomRoles)
       /\ matchLog = <<createMatch(config, randomRoles)>>
  /\ \E mode \in {"loop", "server"} :
       /\ session = Session(mode)
       /\ mode = "server" => CurrentMatch.config.asymmetricRoles = NoRoles
       /\ \E first \in FirstGames(CurrentMatch, 1..MaxDie) :
            game \in (IF mode = "server"
                        THEN advanceAutoFlow(first, CurrentMatch, "none", 1..MaxDie, 0)
                        ELSE {first})
  /\ last = Op("createMatch", <<>>, FALSE, 0)
  /\ turnsPlayed = 0
  /\ offersThisTurn = 0

\* The points the callers pass to updateMatchScore: pointsAwarded || 1.
PointsOf(state) == IF state.pointsAwarded = 0 THEN 1 ELSE state.pointsAwarded

\* What a step leaves beside the game state: the turns and offers counted.
Counted(before, after) ==
  /\ turnsPlayed' = turnsPlayed + (Len(after.moveHistory) - Len(before.moveHistory))
  /\ offersThisTurn' = IF after.currentPlayer # before.currentPlayer THEN 0 ELSE offersThisTurn

-----------------------------------------------------------------------------
\* stepAutomatedTurn, a double pending: the responder's controller answers.
LoopRespond ==
  /\ session.mode = "loop" /\ game.winner = "none"
  /\ session.pendingDoubleOfferer # "none"
  /\ \E accepted \in BOOLEAN :
       /\ game' = respondToDouble(game, accepted)
       /\ last' = Op("respondToDouble", <<>>, accepted, game.doublingCube.value \div 2)
  /\ session' = [session EXCEPT !.pendingDoubleOfferer = "none"]
  /\ UNCHANGED <<turnsPlayed, offersThisTurn, matchLog>>

\* stepAutomatedTurn: the controller of the player on turn wants to double.
LoopOffer ==
  /\ session.mode = "loop" /\ game.winner = "none"
  /\ session.pendingDoubleOfferer = "none"
  /\ canOfferDoubleNow(CurrentMatch, game, game.currentPlayer)
  /\ offerDoubleError(game) = ""
  /\ game' = offerDouble(game)
  /\ last' = Op("offerDouble", <<>>, FALSE, game.doublingCube.value)
  /\ session' = [session EXCEPT !.pendingDoubleOfferer = game.currentPlayer]
  /\ offersThisTurn' = offersThisTurn + 1
  /\ UNCHANGED <<turnsPlayed, matchLog>>

\* stepAutomatedTurn: no double is offered and the phase is rolling.
LoopRoll ==
  /\ session.mode = "loop" /\ game.winner = "none"
  /\ session.pendingDoubleOfferer = "none"
  /\ game.phase = "rolling"
  /\ game' \in rollTurnResults(game, 1..MaxDie)
  /\ last' = Op("rollTurn", <<>>, FALSE, 0)
  /\ UNCHANGED <<turnsPlayed, offersThisTurn, matchLog, session>>

\* stepAutomatedTurn: no double is offered and the phase is moving.
LoopMove ==
  /\ session.mode = "loop" /\ game.winner = "none"
  /\ session.pendingDoubleOfferer = "none"
  /\ game.phase = "moving"
  /\ turnsPlayed < MaxTurns
  /\ \E moves \in Chosen(getLegalMoves(game)) :
       /\ game' \in makeMoveResults(game, moves, 1..MaxDie)
       /\ last' = Op("makeMove", moves, FALSE, 0)
  /\ Counted(game, game')
  /\ UNCHANGED <<matchLog, session>>

\* runAutomatedMatch: the game has returned with a winner and is scored.
LoopScore ==
  /\ session.mode = "loop" /\ game.winner # "none"
  /\ ~session.nextGameScheduled
  /\ CurrentMatch.winner = "none"
  /\ Len(matchLog) <= MaxGames
  /\ matchLog' = Append(matchLog, updateMatchScore(CurrentMatch, game.winner, PointsOf(game)))
  /\ session' = [session EXCEPT !.updates = @ + 1,
                                !.nextGameScheduled = TRUE]
  /\ last' = Op("updateMatchScore", <<>>, FALSE, 0)
  /\ UNCHANGED <<game, turnsPlayed, offersThisTurn>>

\* runAutomatedMatch: the match has no winner, the next game is run.
LoopNextGame ==
  /\ session.mode = "loop"
  /\ session.nextGameScheduled
  /\ CurrentMatch.winner = "none"
  /\ game' \in FirstGames(CurrentMatch, 1..MaxDie)
  /\ session' = [session EXCEPT !.updates = 0, !.nextGameScheduled = FALSE,
                                !.pendingDoubleOfferer = "none"]
  /\ last' = Op("createGame", <<>>, FALSE, 0)
  /\ turnsPlayed' = 0
  /\ offersThisTurn' = 0
  /\ UNCHANGED matchLog

-----------------------------------------------------------------------------
\* A game against the bot (mode "bot"): the bot plays black and has no
\* connection; the handlers serve the player who has one.
BotPlayer == "black"

ServerModes == {"server", "bot"}

Connected == IF session.mode = "bot" THEN Players \ {BotPlayer} ELSE Players

\* A faulty variant of enqueueBotAction: it schedules a run whether or not
\* one is scheduled or running.
enqueueBotActionWhileThinking(sess) ==
  IF sess.mode # "bot" THEN sess
  ELSE [sess EXCEPT !.botThinking = TRUE, !.botInFlight = @ + 1,
                    !.botPhase = "scheduled"]

\* enqueueBotAction: botInFlight counts the callbacks handed to
\* scheduleTimeout whose processBotActions has not settled; botPhase is
\* where the latest of them stands.
enqueueBotAction(sess) ==
  IF sess.mode # "bot" THEN sess
  ELSE IF sess.botThinking THEN [sess EXCEPT !.botQueued = TRUE]
  ELSE [sess EXCEPT !.botThinking = TRUE, !.botInFlight = @ + 1,
                    !.botPhase = "scheduled"]

\* finalizeGame without its test of state.winner.
finalizeGameWithoutWinner(state, log, sess) ==
  LET updated == updateMatchScore(log[Len(log)], state.winner, PointsOf(state))
  IN [log |-> Append(log, updated),
      session |-> IF updated.winner # "none"
                    THEN [sess EXCEPT !.updates = @ + 1, !.matchOver = TRUE]
                    ELSE [sess EXCEPT !.updates = @ + 1, !.nextGameScheduled = TRUE]]

\* finalizeGame on the state a handler has stored: the match log and the
\* session it leaves.
finalizeGame(state, log, sess) ==
  IF state.winner = "none" THEN [log |-> log, session |-> sess]
  ELSE LET updated == updateMatchScore(log[Len(log)], state.winner, PointsOf(state))
       IN [log |-> Append(log, updated),
           session |-> IF updated.winner # "none"
                         THEN [sess EXCEPT !.updates = @ + 1, !.matchOver = TRUE]
                         ELSE [sess EXCEPT !.updates = @ + 1, !.nextGameScheduled = TRUE]]

\* A faulty variant of HandleRollRequest: a pending double does not stop it.
HandleRollRequestWhilePending ==
  /\ session.mode \in ServerModes
  /\ \E player \in Connected :
       /\ game.phase = "rolling"
       /\ game.currentPlayer = player
  /\ \E rolled \in rollTurnResults(game, 1..MaxDie) :
       game' \in advanceAutoFlow(rolled, CurrentMatch, session.pendingDoubleOfferer, 1..MaxDie, 0)
  /\ last' = Op("rollTurn", <<>>, FALSE, 0)
  /\ Counted(game, game')
  /\ session' = enqueueBotAction(session)
  /\ UNCHANGED matchLog

\* handleRollRequest from `player`.
HandleRollRequest ==
  /\ session.mode \in ServerModes
  /\ \E player \in Connected :
       /\ session.pendingDoubleOfferer = "none"
       /\ game.phase = "rolling"
       /\ game.currentPlayer = player
  /\ \E rolled \in rollTurnResults(game, 1..MaxDie) :
       game' \in advanceAutoFlow(rolled, CurrentMatch, session.pendingDoubleOfferer, 1..MaxDie, 0)
  /\ last' = Op("rollTurn", <<>>, FALSE, 0)
  /\ Counted(game, game')
  /\ session' = enqueueBotAction(session)
  /\ UNCHANGED matchLog

\* handleMoveRequest from `player`; the game is finalized when it is won.
HandleMoveRequest ==
  /\ session.mode \in ServerModes
  /\ \E player \in Connected :
       /\ session.pendingDoubleOfferer = "none"
       /\ game.phase = "moving"
       /\ game.currentPlayer = player
  /\ turnsPlayed < MaxTurns
  /\ \E moves \in Chosen(getLegalMoves(game)) :
       /\ \E moved \in makeMoveResults(game, moves, 1..MaxDie) :
            game' \in advanceAutoFlow(moved, CurrentMatch, session.pendingDoubleOfferer, 1..MaxDie, 0)
       /\ last' = Op("makeMove", moves, FALSE, 0)
  /\ game'.winner # "none" => Len(matchLog) <= MaxGames
  /\ \E final \in {finalizeGame(game', matchLog, enqueueBotAction(session))} :
       matchLog' = final.log /\ session' = final.session
  /\ Counted(game, game')

\* handleDoubleOffer from `player`: an error offerDouble throws is caught
\* by the message loop and nothing is stored.
HandleDoubleOffer ==
  /\ session.mode \in ServerModes
  /\ \E player \in Connected :
       /\ session.pendingDoubleOfferer = "none"
       /\ canOfferDoubleNow(CurrentMatch, game, player)
       /\ offerDoubleError(game) = ""
       /\ game' = offerDouble(game)
       /\ session' = enqueueBotAction([session EXCEPT !.pendingDoubleOfferer = player])
  /\ last' = Op("offerDouble", <<>>, FALSE, game.doublingCube.value)
  /\ offersThisTurn' = offersThisTurn + 1
  /\ UNCHANGED <<turnsPlayed, matchLog>>

\* handleDoubleResponse from `player`; a declined game is finalized.
HandleDoubleResponse ==
  /\ session.mode \in ServerModes
  /\ session.pendingDoubleOfferer # "none"
  /\ \E player \in Connected, accepted \in BOOLEAN :
       /\ player = getOpponent(session.pendingDoubleOfferer)
       /\ game' \in advanceAutoFlow(respondToDouble(game, accepted), CurrentMatch,
                                    "none", 1..MaxDie, 0)
       /\ last' = Op("respondToDouble", <<>>, accepted, game.doublingCube.value \div 2)
       /\ ~accepted => Len(matchLog) <= MaxGames
       /\ \E answered \in {enqueueBotAction([session EXCEPT !.pendingDoubleOfferer = "none"])} :
          \E final \in {IF accepted THEN [log |-> matchLog, session |-> answered]
                         ELSE finalizeGame(game', matchLog, answered)} :
            matchLog' = final.log /\ session' = final.session
  /\ Counted(game, game')

\* The callback finalizeGame schedules: the next game of the match.
NextGameTimeout ==
  /\ session.mode \in ServerModes
  /\ session.nextGameScheduled
  /\ \E first \in FirstGames(CurrentMatch, 1..MaxDie) :
       game' \in advanceAutoFlow(first, CurrentMatch, "none", 1..MaxDie, 0)
  /\ session' = enqueueBotAction([session EXCEPT !.updates = 0,
                                                  !.nextGameScheduled = FALSE,
                                                  !.pendingDoubleOfferer = "none"])
  /\ last' = Op("createGame", <<>>, FALSE, 0)
  /\ turnsPlayed' = 0
  /\ offersThisTurn' = 0
  /\ UNCHANGED matchLog

NextMatchPlay ==
  \/ LoopRespond \/ LoopOffer \/ LoopRoll \/ LoopMove \/ LoopScore \/ LoopNextGame
  \/ HandleRollRequest \/ HandleMoveRequest \/ HandleDoubleOffer
  \/ HandleDoubleResponse \/ NextGameTimeout

\* A match played by runAutomatedMatch, or on the server.
SpecMatchPlay == InitMatchPlay /\ [][NextMatchPlay]_vars

(***************************************************************************)
(* The server's bot: processBotActions runs stepAutomatedTurn for the bot  *)
(* from a callback enqueueBotAction schedules.  While stepAutomatedTurn    *)
(* awaits the bot's controller the server handles other events;            *)
(* session.botRun then holds what the call was given and what it will      *)
(* return.                                                                 *)
(***************************************************************************)
\* computeAwaitingInput, `automated` the players that have a controller.
computeAwaitingInput(state, pending, automated) ==
  IF pending # "none" THEN getOpponent(pending) \notin automated
  ELSE state.currentPlayer \notin automated

\* What stepAutomatedTurn returns; awaited says that it awaited a
\* controller, op is the engine operation it made.
StepResult(state, pending, advanced, awaitingInput, awaited, op) ==
  [state |-> state, pendingDoubleOfferer |-> pending, advanced |-> advanced,
   awaitingInput |-> awaitingInput, awaited |-> awaited, op |-> op]

NoOp == Op("none", <<>>, FALSE, 0)

\* stepAutomatedTurn: the results it may return.
stepAutomatedTurn(match, state, pending, automated, faces) ==
  IF state.winner # "none"
    THEN {StepResult(state, pending, FALSE, FALSE, FALSE, NoOp)}
  ELSE IF pending # "none"
    THEN IF getOpponent(pending) \notin automated
           THEN {StepResult(state, pending, FALSE, TRUE, FALSE, NoOp)}
           ELSE {StepResult(respondToDouble(state, accepted), "none", TRUE,
                            computeAwaitingInput(respondToDouble(state, accepted),
                                                 "none", automated),
                            TRUE, Op("respondToDouble", <<>>, accepted,
                                     state.doublingCube.value \div 2))
                 : accepted \in BOOLEAN}
  ELSE IF state.currentPlayer \notin automated
    THEN {StepResult(state, pending, FALSE, TRUE, FALSE, NoOp)}
  ELSE UNION {
    (IF asked /\ offerDoubleError(state) = ""
       THEN {StepResult(offerDouble(state), state.currentPlayer, TRUE,
                        computeAwaitingInput(offerDouble(state), state.currentPlayer,
                                             automated),
                        TRUE, Op("offerDouble", <<>>, FALSE, state.doublingCube.value))}
       ELSE {})
    \cup
    (IF state.phase = "rolling"
       THEN {StepResult(nextState, pending, TRUE,
                        computeAwaitingInput(nextState, pending, automated), asked,
                        Op("rollTurn", <<>>, FALSE, 0))
             : nextState \in rollTurnResults(state, faces)}
     ELSE IF state.phase = "moving"
       THEN UNION {
              {StepResult(nextState, pending, TRUE,
                          computeAwaitingInput(nextState, pending, automated),
                          asked \/ moves # <<>>, Op("makeMove", moves, FALSE, 0))
               : nextState \in makeMoveResults(state, moves, faces)}
              : moves \in UNION {Chosen(legalMoves)
                                  : legalMoves \in {getLegalMoves(state)}}}
     ELSE {StepResult(state, pending, FALSE, FALSE, asked, NoOp)})
    : asked \in {canOfferDoubleNow(match, state, state.currentPlayer)}}

\* The end of a run of processBotActions: the then and the finally of
\* enqueueBotAction.
botSettled(sess, shouldContinue) ==
  LET done == [sess EXCEPT !.botThinking = FALSE, !.botInFlight = @ - 1,
                           !.botPhase = "idle", !.botRun = <<>>, !.botQueued = FALSE]
  IN IF sess.botQueued \/ shouldContinue THEN enqueueBotAction(done) ELSE done

\* processBotActions from the return of stepAutomatedTurn on.
StoreBotResult(result) ==
  IF ~result.advanced
    THEN /\ session' = botSettled(session, FALSE)
         /\ UNCHANGED <<game, last, turnsPlayed, offersThisTurn, matchLog>>
    ELSE /\ game' \in advanceAutoFlow(result.state, CurrentMatch,
                                      result.pendingDoubleOfferer, 1..MaxDie, 0)
         /\ game'.winner # "none" => Len(matchLog) <= MaxGames
         /\ \E final \in {finalizeGame(game', matchLog,
                            [session EXCEPT !.pendingDoubleOfferer =
                                              result.pendingDoubleOfferer])} :
              /\ matchLog' = final.log
              /\ session' = botSettled(final.session,
                                       game'.winner = "none" /\ ~result.awaitingInput)
         /\ last' = result.op
         /\ turnsPlayed' = turnsPlayed + (Len(game'.moveHistory) - Len(game.moveHistory))
         /\ offersThisTurn' = IF game'.currentPlayer # game.currentPlayer THEN 0
                              ELSE IF result.op.op = "offerDouble" THEN offersThisTurn + 1
                              ELSE offersThisTurn

\* The results processBotActions may get from stepAutomatedTurn when its
\* callback runs; it does not call it when the match is over.  The bot
\* moves in the first MaxTurns turns of a game only.
BotResults ==
  IF session.matchOver THEN {StepResult(game, session.pendingDoubleOfferer, FALSE, FALSE,
                                        FALSE, NoOp)}
  ELSE IF /\ game.winner = "none" /\ session.pendingDoubleOfferer = "none"
          /\ game.currentPlayer = BotPlayer /\ game.phase = "moving"
          /\ turnsPlayed >= MaxTurns
    THEN {}
  ELSE stepAutomatedTurn(CurrentMatch, game, session.pendingDoubleOfferer,
                         {BotPlayer}, 1..MaxDie)

\* The scheduled callback runs and stepAutomatedTurn awaits no controller:
\* processBotActions runs to its end.
BotStep ==
  /\ session.mode = "bot" /\ session.botPhase = "scheduled"
  /\ \E result \in BotResults :
       /\ ~result.awaited
       /\ StoreBotResult(result)

\* The scheduled callback runs and stepAutomatedTurn awaits the bot's
\* controller.
BotDecide ==
  /\ session.mode = "bot" /\ session.botPhase = "scheduled"
  /\ \E result \in BotResults :
       /\ result.awaited
       /\ session' = [session EXCEPT !.botPhase = "deciding",
                        !.botRun = <<[state |-> game,
                                      pendingDoubleOfferer |-> session.pendingDoubleOfferer,
                                      result |-> result]>>]
  /\ UNCHANGED <<game, last, turnsPlayed, offersThisTurn, matchLog>>

\* The controller has answered: stepAutomatedTurn returns and
\* processBotActions stores its result.
BotStore ==
  /\ session.mode = "bot" /\ session.botPhase = "deciding"
  /\ StoreBotResult(session.botRun[1].result)

\* The timer interval finds the bot on turn in an asymmetric game with
\* nothing scheduled.
TimerEnqueue ==
  /\ session.mode = "bot"
  /\ ~session.matchOver
  /\ game.variant = "asymmetric"
  /\ game.currentPlayer = BotPlayer
  /\ session.pendingDoubleOfferer = "none"
  /\ ~session.botThinking /\ ~session.botQueued
  /\ session' = enqueueBotAction(session)
  /\ UNCHANGED <<game, last, turnsPlayed, offersThisTurn, matchLog>>

\* The controller's promise is rejected: processBotActions throws, the
\* catch of enqueueBotAction logs the error and nothing is stored.
BotFail ==
  /\ session.mode = "bot" /\ session.botPhase = "deciding"
  /\ session' = botSettled(session, FALSE)
  /\ UNCHANGED <<game, last, turnsPlayed, offersThisTurn, matchLog>>

\* handleTimeout: the time bank of `loser` has run out.
HandleTimeout ==
  /\ session.mode = "bot"
  /\ ~session.matchOver
  /\ \E loser \in Players :
       matchLog' = [matchLog EXCEPT ![Len(matchLog)].winner = getOpponent(loser)]
  /\ session' = [session EXCEPT !.matchOver = TRUE]
  /\ UNCHANGED <<game, last, turnsPlayed, offersThisTurn>>

\* handleCreateGame for a game against the bot.
InitBot ==
  /\ \E config \in PlayedMatchConfigs, randomRoles \in randomAsymmetricRoles :
       /\ config.asymmetricRoles = NoRoles
       /\ ~createMatchThrows(config, randomRoles)
       /\ matchLog = <<createMatch(config, randomRoles)>>
  /\ session = enqueueBotAction(Session("bot"))
  /\ \E first \in FirstGames(CurrentMatch, 1..MaxDie) :
       game \in advanceAutoFlow(first, CurrentMatch, "none", 1..MaxDie, 0)
  /\ last = Op("createMatch", <<>>, FALSE, 0)
  /\ turnsPlayed = 0
  /\ offersThisTurn = 0

NextBot ==
  \/ HandleRollRequest \/ HandleMoveRequest \/ HandleDoubleOffer
  \/ HandleDoubleResponse \/ NextGameTimeout
  \/ BotStep \/ BotDecide \/ BotStore \/ BotFail \/ TimerEnqueue \/ HandleTimeout

\* A match against the bot on the server.
SpecBot == InitBot /\ [][NextBot]_vars

\* The engine from createGame, every operation, dice up to MaxDie.
Spec == InitGame /\ [][Next]_vars

\* The engine from createGame as a game loop drives it.
SpecPlay == InitGame /\ [][NextPlay]_vars

\* The doubling cube from createGame: the operations other than makeMove.
SpecCube == InitGame /\ [][NextCube]_vars

\* The move generator and validator on the positions: one turn, all dice.
SpecMoves == InitMoves /\ [][NextMoves]_vars

\* The last turn of a game with the cube in use: from the positions, a
\* pending double is answered before anything else, nothing follows a
\* winner, the roll takes any dice and the mover submits any sequence
\* makeMove accepts.
EndgameRespondToDouble == game.winner = "none" /\ DoublePending /\ RespondToDouble

EndgameOfferDouble == game.winner = "none" /\ ~DoublePending /\ OfferDouble

EndgameRollTurn == game.winner = "none" /\ ~DoublePending /\ RollTurnAnyDice

EndgameMakeMove == game.winner = "none" /\ ~DoublePending /\ MakeMoveAnyDice

NextEndgame ==
  EndgameRespondToDouble \/ EndgameOfferDouble \/ EndgameRollTurn \/ EndgameMakeMove

SpecEndgame == InitMoves /\ [][NextEndgame]_vars

(***************************************************************************)
(* Claims                                                                  *)
(***************************************************************************)
Off(state, player) == IF player = "white" THEN state.whiteOff ELSE state.blackOff

RECURSIVE SumOver(_, _)
SumOver(f, S) ==
  IF S = {} THEN 0
  ELSE LET x == CHOOSE y \in S : TRUE IN f[x] + SumOver(f, S \ {x})

\* A player's checkers on the points 1..24.
OnPoints(board, player) ==
  SumOver([pt \in 1..24 |-> IF board[pt].player = player THEN board[pt].count ELSE 0], 1..24)

\* A player's checkers on its own bar.
OnOwnBar(board, player) ==
  IF board[getBarPoint(player)].player = player THEN board[getBarPoint(player)].count ELSE 0

\* C1: in every reachable state each player has exactly 15 checkers: those on
\* the points 1..24, plus those on its bar, plus its off-count.
C1_FifteenCheckers ==
  \A player \in Players :
    OnPoints(game.board, player) + OnOwnBar(game.board, player) + Off(game, player) = 15

\* C1 witness: a makeMove that hit a blot and bore a checker off.
C1_Witness ==
  /\ last.op = "makeMove"
  /\ \E i \in DOMAIN last.moves : last.moves[i].hit
  /\ \E i \in DOMAIN last.moves : last.moves[i].to = -1
  /\ OnOwnBar(game.board, game.currentPlayer) > 0

\* What an operation leaves of a finished game.
SameOutcome(a, b) ==
  /\ a.winner = b.winner
  /\ a.winType = b.winType
  /\ a.pointsAwarded = b.pointsAwarded
  /\ a.doublingCube = b.doublingCube
  /\ a.stakes = b.stakes

\* C2: once winner is set, every engine operation applied to the state fails
\* or returns a state with the same winner, winType, pointsAwarded, cube value,
\* cube owner and stakes.
C2_TerminalReadOnly ==
  game.winner # "none" =>
    /\ game.phase # "setup"
    /\ game.phase # "rolling"
    /\ ~validateAndApplyMoves(game, <<>>).valid
    /\ offerDoubleError(game) # "" \/ SameOutcome(offerDouble(game), game)
    /\ \A accept \in BOOLEAN : SameOutcome(respondToDouble(game, accept), game)

\* C3: declining a double that was just offered ends the game: phase gameOver,
\* winner the player who offered, winType normal, pointsAwarded the cube value
\* before the offer (the current value halved, floored, at least 1), for every
\* value 1..32 that value can be.
C3_DeclineAwardsPriorValue ==
  /\ last.op = "offerDouble" =>
       LET declined == respondToDouble(game, FALSE)
       IN /\ last.offeredAt \in {1, 2, 4, 8, 16, 32}
          /\ game.doublingCube.value = 2 * last.offeredAt
          /\ declined.phase = "gameOver"
          /\ declined.winner = game.currentPlayer
          /\ declined.winType = "normal"
          /\ declined.pointsAwarded = last.offeredAt
  /\ (last.op = "respondToDouble" /\ ~last.accept /\ last.offeredAt # 0) =>
       /\ game.phase = "gameOver"
       /\ game.winner = game.currentPlayer
       /\ game.winType = "normal"
       /\ game.pointsAwarded = last.offeredAt

\* C3 witness: a double offered at cube value 32 and declined.
C3_Witness ==
  /\ last.op = "respondToDouble" /\ ~last.accept
  /\ last.offeredAt = 32
  /\ game.pointsAwarded = 32

(***************************************************************************)
(* Reference notions for the claims about the generator and the validator  *)
(***************************************************************************)
\* The single-die moves that can be played on a board with one die.
Playable(board, player, die) ==
  {c \in generateMovesForDie(board, player, die) : SearchApply(board, player, c).ok}

\* A sequence of dice with one occurrence of a value taken out.
WithoutOne(dice, value) ==
  LET i == CHOOSE k \in DOMAIN dice : dice[k] = value
  IN SubSeq(dice, 1, i - 1) \o SubSeq(dice, i + 1, Len(dice))

Largest(S) == CHOOSE x \in S : \A y \in S : y <= x

\* The largest number of dice that can be played, one legal single-die move
\* after the other, in any order of the dice.
RECURSIVE MaxPlayable(_, _, _)
MaxPlayable(board, player, dice) ==
  LET plays == UNION {{<<die, c>> : c \in Playable(board, player, die)}
                        : die \in {dice[k] : k \in DOMAIN dice}}
  IN IF plays = {} THEN 0
     ELSE 1 + Largest({MaxPlayable(SearchApply(board, player, pl[2]).board, player,
                                   WithoutOne(dice, pl[1])) : pl \in plays})

\* How often a value occurs in a sequence of dice, and as the die of a move.
TimesIn(dice, value) == Cardinality({k \in DOMAIN dice : dice[k] = value})

TimesUsed(seq, value) == Cardinality({k \in DOMAIN seq : seq[k].die = value})

\* The board after a sequence is played in order.
RECURSIVE BoardAfter(_, _, _)
BoardAfter(board, player, seq) ==
  IF seq = <<>> THEN board
  ELSE BoardAfter(SearchApply(board, player, Head(seq)).board, player, Tail(seq))

\* The moves among the first n of a sequence that start from the player's bar.
BarMovesBefore(seq, player, n) ==
  Cardinality({k \in 1..(n - 1) : seq[k].from = getBarPoint(player)})

\* C4: the sequences get-legal-moves returns all have the length L, the
\* largest number of dice playable in any order; L is at most the number of
\* unused dice, and the dice a sequence uses are a sub-multiset of unusedDice.
C4_LongestSequences ==
  game.phase = "moving" =>
    \A legal \in {getLegalMoves(game)} :
      LET L == MaxPlayable(game.board, game.currentPlayer, game.unusedDice)
      IN /\ L <= Len(game.unusedDice)
         /\ L <= 4
         /\ (legal = {}) <=> (L = 0)
         /\ \A seq \in legal :
              /\ Len(seq) = L
              /\ \A value \in DieFaces :
                   TimesUsed(seq, value) <= TimesIn(game.unusedDice, value)

\* C4 witness: a double of 3 with a sequence of four moves.
C4_Witness ==
  /\ game.phase = "moving"
  /\ game.unusedDice = <<3, 3, 3, 3>>
  /\ \E seq \in getLegalMoves(game) : Len(seq) = 4

\* C5: after any sequence get-legal-moves returns is played in order, no legal
\* single-die move exists for a die value left over in unusedDice.
C5_MaximalUsage ==
  game.phase = "moving" =>
    \A seq \in getLegalMoves(game) :
      LET after == BoardAfter(game.board, game.currentPlayer, seq)
      IN \A value \in DieFaces :
           TimesUsed(seq, value) < TimesIn(game.unusedDice, value)
             => Playable(after, game.currentPlayer, value) = {}

\* C5 witness: a returned sequence that leaves a die unused.
C5_Witness ==
  /\ game.phase = "moving"
  /\ \E seq \in getLegalMoves(game) : Len(seq) < Len(game.unusedDice) /\ Len(seq) >= 2

\* Whether two moves can be played one after the other with two dice.
TwoMovesPlayable(board, player, dice) ==
  \E k \in 1..2 :
    \E c \in Playable(board, player, dice[k]) :
      Playable(SearchApply(board, player, c).board, player, dice[3 - k]) # {}

\* C6: with two different unused dice and no two-move sequence playable, every
\* returned sequence is one move with the higher die if the higher die can be
\* played; a move with the lower die is returned only when it cannot.
C6_HigherDie ==
  (/\ game.phase = "moving"
   /\ Len(game.unusedDice) = 2
   /\ game.unusedDice[1] # game.unusedDice[2]
   /\ ~TwoMovesPlayable(game.board, game.currentPlayer, game.unusedDice)) =>
    LET higher == Largest({game.unusedDice[1], game.unusedDice[2]})
        higherPlayable == Playable(game.board, game.currentPlayer, higher) # {}
    IN \A seq \in getLegalMoves(game) :
         /\ Len(seq) = 1
         /\ higherPlayable => seq[1].die = higher
         /\ seq[1].die # higher => ~higherPlayable

\* C6 witness: each die can be played alone, the two cannot be played together.
C6_Witness ==
  /\ game.phase = "moving"
  /\ Len(game.unusedDice) = 2
  /\ game.unusedDice[1] # game.unusedDice[2]
  /\ ~TwoMovesPlayable(game.board, game.currentPlayer, game.unusedDice)
  /\ \A k \in 1..2 : Playable(game.board, game.currentPlayer, game.unusedDice[k]) # {}
  /\ getLegalMoves(game) # {}

\* C7: while the mover has a checker on its bar, every move of a returned
\* sequence starts from that bar; in particular the first one.
C7_ForcedBar ==
  game.phase = "moving" =>
    LET player == game.currentPlayer
        onBar  == OnOwnBar(game.board, player)
    IN \A seq \in getLegalMoves(game) :
         \A n \in DOMAIN seq :
           /\ seq[n].from \in 1..24 \/ seq[n].from = getBarPoint(player)
           /\ onBar - BarMovesBefore(seq, player, n) > 0
                => seq[n].from = getBarPoint(player)

\* C7 witness: two checkers on the bar enter, then a checker moves from a point.
C7_Witness ==
  /\ game.phase = "moving"
  /\ OnOwnBar(game.board, game.currentPlayer) = 2
  /\ \E seq \in getLegalMoves(game) :
       /\ Len(seq) >= 3
       /\ seq[1].from = getBarPoint(game.currentPlayer)
       /\ seq[2].from = getBarPoint(game.currentPlayer)
       /\ seq[3].from \in 1..24

\* C8: in phase moving, every sequence get-legal-moves returns is accepted by
\* make-move, which returns valid with a new state.
C8_RoundTrip ==
  game.phase = "moving" =>
    \A legal \in {getLegalMoves(game)} :
      \A legalKeys \in {LegalKeys(legal)} :
        \A seq \in legal :
          LET result == MakeMoveOn(game, ValidateAgainst(game, seq, legal, legalKeys),
                                   seq, NoDice, NoDice)
          IN result.valid /\ result.hasNewState

\* C8 witness: a generated sequence of two moves or more was passed to
\* make-move as generated, and the turn was recorded with it.
C8_Witness ==
  /\ last.op = "makeMove"
  /\ Len(last.moves) >= 2
  /\ Len(game.moveHistory) > 0
  /\ game.moveHistory[Len(game.moveHistory)].moves = last.moves
  /\ \A k \in 1..(Len(last.moves) - 1) : MoveCompare(last.moves[k], last.moves[k + 1]) > 0

\* A sequence as a multiset of (from, to, die) moves: how often each occurs.
MultisetOf(moves) ==
  LET triple(k) == <<moves[k].from, moves[k].to, moves[k].die>>
  IN [t \in {triple(k) : k \in DOMAIN moves}
        |-> Cardinality({j \in DOMAIN moves : triple(j) = t})]

\* The sequences make-move is tried with: what a caller may submit, the
\* generator's sequences cut short, with the die or the destination of the
\* first move changed, with the hit flag of the first move flipped, and the
\* sequence of the last make-move.
Attempts(state, legal) ==
  Submitted(legal)
    \cup {SubSeq(seq, 1, Len(seq) - 1) : seq \in legal}
    \cup {[seq EXCEPT ![1].die = die] : seq \in legal, die \in DieFaces}
    \cup {[seq EXCEPT ![1].to = IF @ > 1 THEN @ - 1 ELSE @ + 1] : seq \in legal}
    \cup {[seq EXCEPT ![1].hit = ~@] : seq \in legal}
    \cup {last.moves}

\* The cases in which make-move is to succeed.
Acceptable(state, legalMultisets, moves) ==
  /\ state.phase = "moving"
  /\ Len(state.unusedDice) > 0
  /\ IF Len(moves) = 0 THEN legalMultisets = {}
     ELSE MultisetOf(moves) \in legalMultisets

\* C9: make-move fails, with an error and no new state, when the phase is not
\* moving, when unusedDice is empty, when a non-empty sequence equals no
\* generated sequence as a multiset of (from, to, die) moves, and when the
\* sequence is empty while a sequence is generated; otherwise it succeeds.
C9_FailureCases ==
  /\ \A moves \in {<<>>, last.moves} :
       LET emptied == [game EXCEPT !.unusedDice = <<>>]
           result  == makeMove(emptied, moves, NoDice, NoDice)
       IN ~result.valid /\ ~result.hasNewState /\ result.error # ""
          /\ result.newState = emptied
  /\ \A legal \in {getLegalMoves(game)} :
       \A legalKeys \in {LegalKeys(legal)} :
       \A legalMultisets \in {{MultisetOf(seq) : seq \in legal}} :
         \A moves \in Attempts(game, legal) :
           LET result == MakeMoveOn(game, ValidateAgainst(game, moves, legal, legalKeys),
                                    moves, NoDice, NoDice)
           IN IF Acceptable(game, legalMultisets, moves)
                THEN result.valid /\ result.hasNewState /\ result.error = ""
                ELSE ~result.valid /\ ~result.hasNewState /\ result.error # ""
                     /\ result.newState = game

\* C9 witness: in phase moving a reordered sequence is acceptable though the
\* generator does not return it, and a sequence with another unused die on
\* its first move is not.
C9_Witness ==
  /\ game.phase = "moving"
  /\ \E legal \in {getLegalMoves(game)} :
     \E legalMultisets \in {{MultisetOf(seq) : seq \in legal}} :
       \E seq \in legal :
         /\ Reverse(seq) \notin legal
         /\ Acceptable(game, legalMultisets, Reverse(seq))
         /\ \E k \in DOMAIN game.unusedDice :
              /\ game.unusedDice[k] # seq[1].die
              /\ ~Acceptable(game, legalMultisets, [seq EXCEPT ![1].die = game.unusedDice[k]])

\* C10 as stated: make-move with the empty sequence succeeds exactly when
\* get-legal-moves returns no sequence.
C10_PassExactlyWhenNoSequence ==
  makeMove(game, <<>>, NoDice, NoDice).valid <=> (getLegalMoves(game) = {})

\* C10, amended: in phase moving with unused dice, make-move with the empty
\* sequence succeeds exactly when get-legal-moves returns no sequence; it then
\* leaves the board and the off-counts unchanged, records a Turn with no moves
\* and hands the turn to the opponent.
C10_ForcedPass ==
  /\ (game.phase = "moving" /\ Len(game.unusedDice) > 0) =>
       \A legal \in {getLegalMoves(game)} :
         LET result == MakeMoveOn(game, ValidateAgainst(game, <<>>, legal, LegalKeys(legal)),
                                  <<>>, NoDice, NoDice)
             passed == result.newState
             dice   == IF game.currentPlayer = "white" THEN game.whiteDice ELSE game.blackDice
         IN /\ result.valid <=> (legal = {})
            /\ result.valid =>
                 /\ passed.board = game.board
                 /\ passed.whiteOff = game.whiteOff /\ passed.blackOff = game.blackOff
                 /\ passed.moveHistory
                      = Append(game.moveHistory, Turn(game.currentPlayer, dice, <<>>))
                 /\ passed.currentPlayer = getOpponent(game.currentPlayer)
                 /\ passed.winner = "none"
  /\ (last.op = "makeMove" /\ last.moves = <<>>) =>
       /\ Len(game.moveHistory) > 0
       /\ game.moveHistory[Len(game.moveHistory)].moves = <<>>
       /\ game.moveHistory[Len(game.moveHistory)].player = getOpponent(game.currentPlayer)

\* C10 witness: the mover was on the bar with every entry point of the dice
\* held by the opponent, and passed.
C10_Witness ==
  /\ last.op = "makeMove" /\ last.moves = <<>>
  /\ game.moveHistory[Len(game.moveHistory)].moves = <<>>
  /\ OnOwnBar(game.board, getOpponent(game.currentPlayer)) > 0

(***************************************************************************)
(* Object identities: which arrays and stacks an operation writes to.      *)
(* A GameState object refers to its board array, the stack objects in it,  *)
(* its unusedDice array and its moveHistory array.                         *)
(***************************************************************************)
Null == <<"null", "none", 0>>

Fresh(kind, slot) == <<"fresh", kind, slot>>

\* The objects of the state a caller passes in.
InputRefs(state) ==
  [self        |-> <<"input", "state", 0>>,
   board       |-> <<"input", "board", 0>>,
   stacks      |-> [slot \in 0..25 |-> IF state.board[slot] = NoStack THEN Null
                                       ELSE <<"input", "stack", slot>>],
   unusedDice  |-> <<"input", "unusedDice", 0>>,
   moveHistory |-> <<"input", "moveHistory", 0>>]

\* Every object reachable from a state object.
ObjectsOf(refs) ==
  ({refs.self, refs.board, refs.unusedDice, refs.moveHistory}
     \cup {refs.stacks[slot] : slot \in 0..25}) \ {Null}

\* A faulty variant of cloneBoard: a new array holding the same stack objects.
cloneBoardShallow(refs) == [refs EXCEPT !.board = <<"clone", "board", 0>>]

\* cloneBoard: a new array with a copy of every stack object.
cloneBoard(refs) ==
  [refs EXCEPT
     !.board  = <<"clone", "board", 0>>,
     !.stacks = [slot \in 0..25 |-> IF refs.stacks[slot] = Null THEN Null
                                    ELSE <<"clone", "stack", slot>>]]

\* { ...state, board: cloneBoard(state.board), unusedDice: [...], moveHistory: [...] }
cloneState(refs) ==
  [cloneBoard(refs) EXCEPT
     !.self        = <<"clone", "state", 0>>,
     !.unusedDice  = <<"clone", "unusedDice", 0>>,
     !.moveHistory = <<"clone", "moveHistory", 0>>]

\* A run over objects: the references the new state holds and the objects
\* written to so far.
Run(refs, written) == [refs |-> refs, written |-> written]

\* applyMoveToBoard on the objects of a board whose contents are `board`.
WritesOfBoardMove(board, run, from, to, player) ==
  LET refs == run.refs
      fromStack == board[from]
  IN IF fromStack = NoStack \/ fromStack.player # player \/ fromStack.count = 0
       THEN run
     ELSE
       LET emptied == fromStack.count = 1
           stacks1 == IF emptied THEN [refs.stacks EXCEPT ![from] = Null] ELSE refs.stacks
           written1 == run.written \cup {refs.stacks[from]}
                         \cup (IF emptied THEN {refs.board} ELSE {})
           board1 == TakeOne(board, from)
           toStack == board1[to]
       IN IF toStack # NoStack /\ toStack.player # player
            THEN IF toStack.count = 1
                   THEN LET opponentBar == getBarPoint(toStack.player)
                            barIsNew == board1[opponentBar] = NoStack
                            stacks2 == IF barIsNew
                                         THEN [stacks1 EXCEPT ![opponentBar] = Fresh("stack", opponentBar)]
                                         ELSE stacks1
                            written2 == written1 \cup {refs.board}
                                          \cup (IF barIsNew THEN {} ELSE {stacks1[opponentBar]})
                        IN Run([refs EXCEPT !.stacks = [stacks2 EXCEPT ![to] = Fresh("stack", to)]],
                               written2)
                   ELSE Run([refs EXCEPT !.stacks = stacks1], written1)
          ELSE IF board1[to] = NoStack
            THEN Run([refs EXCEPT !.stacks = [stacks1 EXCEPT ![to] = Fresh("stack", to)]],
                     written1 \cup {refs.board})
          ELSE Run([refs EXCEPT !.stacks = stacks1], written1 \cup {stacks1[to]})

\* The bear-off branch of the apply loop of validateAndApplyMoves.
WritesOfBearOff(board, run, from, player) ==
  LET refs == run.refs
      fromStack == board[from]
  IN IF fromStack # NoStack /\ fromStack.player = player
       THEN IF fromStack.count = 1
              THEN Run([refs EXCEPT !.stacks[from] = Null],
                       run.written \cup {refs.stacks[from], refs.board, refs.self})
              ELSE Run(refs, run.written \cup {refs.stacks[from], refs.self})
       ELSE run

\* The apply loop of validateAndApplyMoves on the objects of newState.
RECURSIVE WritesOfApplyMoves(_, _, _, _)
WritesOfApplyMoves(state, newState, run, moves) ==
  IF moves = <<>> THEN run
  ELSE IF IndexOf(newState.unusedDice, Head(moves).die) = 0 THEN run
  ELSE
    LET move == Head(moves)
        player == state.currentPlayer
        spliced == Run(run.refs, run.written \cup {run.refs.unusedDice})
        moved == IF move.to = -1
                   THEN WritesOfBearOff(newState.board, spliced, FromBoard(move, player), player)
                   ELSE WritesOfBoardMove(newState.board, spliced, FromBoard(move, player),
                                          ToBoard(move, player), player)
    IN WritesOfApplyMoves(state, ApplyOneMove(state, newState, move), moved, Tail(moves))

\* The first level of the generator's search: each candidate move is applied
\* to a clone of the board of the state.
WritesOfGenerator(state) ==
  IF state.phase # "moving" \/ Len(state.unusedDice) = 0 THEN {}
  ELSE LET player == state.currentPlayer
       IN UNION {IF move.to = -1
                   THEN WritesOfBearOff(state.board, Run(cloneBoard(InputRefs(state)), {}),
                                        FromBoard(move, player), player).written
                          \ {<<"input", "state", 0>>}
                   ELSE WritesOfBoardMove(state.board, Run(cloneBoard(InputRefs(state)), {}),
                                          FromBoard(move, player), ToBoard(move, player),
                                          player).written
                  : move \in UNION {generateMovesForDie(state.board, player, state.unusedDice[k])
                                      : k \in DOMAIN state.unusedDice}}

\* makeMove on objects, given validateAndApplyMoves' result for the values:
\* nothing is written when it fails; the new state is a clone; completing the
\* turn pushes to its moveHistory and assigns its fields.
WritesOfMakeMove(state, moves, result) ==
  IF ~result.valid
    THEN Run(InputRefs(state), WritesOfGenerator(state))
  ELSE
    LET applied == WritesOfApplyMoves(state, state,
                                      Run(cloneState(InputRefs(state)), WritesOfGenerator(state)),
                                      moves)
        completed == Len(result.newState.unusedDice) = 0 \/ ~hasLegalMoves(result.newState)
    IN IF completed
         THEN Run([applied.refs EXCEPT !.unusedDice = Fresh("unusedDice", 0)],
                  applied.written \cup {applied.refs.moveHistory, applied.refs.self})
         ELSE applied

\* C11: make-move writes to no object of the state passed to it, whether it
\* succeeds or fails, and the board of the state it returns shares no stack
\* (and no array) with the input.
C11_InputNotMutated ==
  \A legal \in {getLegalMoves(game)} :
    \A legalKeys \in {LegalKeys(legal)} :
      \A moves \in Submitted(legal) \cup {SubSeq(seq, 1, Len(seq) - 1) : seq \in legal} :
        LET result == ValidateAgainst(game, moves, legal, legalKeys)
            run    == WritesOfMakeMove(game, moves, result)
            input  == ObjectsOf(InputRefs(game))
        IN /\ run.written \cap input = {}
           /\ result.valid => ObjectsOf(run.refs) \cap input = {}
           /\ ~result.valid => run.refs = InputRefs(game)

\* C11 witness: a make-move of four moves that hit a blot was made.
C11_Witness ==
  /\ last.op = "makeMove"
  /\ Len(last.moves) = 4
  /\ \E k \in DOMAIN last.moves : last.moves[k].hit

\* Each occupied slot has one owner and at least one checker; slot 0 holds
\* only white and slot 25 only black.
WellFormedBoard(board) ==
  /\ \A slot \in 0..25 :
       \/ board[slot] = NoStack
       \/ board[slot].player \in Players /\ board[slot].count >= 1
  /\ board[0].player \in {"none", "white"}
  /\ board[25].player \in {"none", "black"}

\* One move from `before` to `after`: when a checker of the player stood on
\* the origin and the move goes to a point, that point did not hold two or
\* more opposing checkers, and a single opposing checker on it went to its
\* owner's bar, alone.
MoveLandsWell(before, after, move, player) ==
  LET from == FromBoard(move, player)
      to   == ToBoard(move, player)
      opponent    == getOpponent(player)
      opponentBar == getBarPoint(opponent)
  IN (move.to # -1 /\ before[from].player = player) =>
       /\ ~(before[to].player = opponent /\ before[to].count >= 2)
       /\ after[to].player = player
       /\ IF before[to].player = opponent
            THEN /\ after[to].count = 1
                 /\ after[opponentBar].player = opponent
                 /\ after[opponentBar].count = before[opponentBar].count + 1
            ELSE /\ after[to].count = before[to].count + 1
                 /\ after[opponentBar] = before[opponentBar]
       /\ \A slot \in 1..24 \ {from, to} : after[slot] = before[slot]

\* Every move of a sequence the generator returns, on the boards of its search.
RECURSIVE GeneratedLandsWell(_, _, _)
GeneratedLandsWell(board, player, seq) ==
  IF seq = <<>> THEN TRUE
  ELSE LET after == SearchApply(board, player, Head(seq)).board
       IN /\ MoveLandsWell(board, after, Head(seq), player)
          /\ WellFormedBoard(after)
          /\ GeneratedLandsWell(after, player, Tail(seq))

\* Every move of a sequence make-move applies, on the boards of its apply loop.
RECURSIVE AppliedLandsWell(_, _, _)
AppliedLandsWell(state, newState, moves) ==
  IF moves = <<>> THEN TRUE
  ELSE LET applied == ApplyOneMove(state, newState, Head(moves))
       IN /\ MoveLandsWell(newState.board, applied.board, Head(moves), state.currentPlayer)
          /\ WellFormedBoard(applied.board)
          /\ AppliedLandsWell(state, applied, Tail(moves))

\* C12: no move applied by the generator or by make-move lands on two or more
\* opposing checkers; landing on a single opposing checker moves exactly that
\* checker to its owner's bar; every reachable board has one owner and a count
\* of at least 1 per occupied slot, only white in slot 0, only black in slot 25.
C12_SingleOwnerPoints ==
  /\ WellFormedBoard(game.board)
  /\ game.phase = "moving" =>
       \A legal \in {getLegalMoves(game)} :
         /\ \A seq \in legal : GeneratedLandsWell(game.board, game.currentPlayer, seq)
         /\ \A moves \in Submitted(legal) : AppliedLandsWell(game, game, moves)

\* C12 witness: a make-move in another order than the generator's hit a blot,
\* and the checker hit is on its owner's bar.
C12_Witness ==
  /\ last.op = "makeMove"
  /\ Len(last.moves) >= 2
  /\ last.moves[Len(last.moves)].hit
  /\ \E k \in 1..(Len(last.moves) - 1) : MoveCompare(last.moves[k], last.moves[k + 1]) < 0
  /\ OnOwnBar(game.board, getOpponent(game.moveHistory[Len(game.moveHistory)].player)) >= 1

\* The win type the rules give a finished game.
WinTypeByRule(state, winner) ==
  LET loser == getOpponent(winner)
      winnersHome == IF winner = "white" THEN 1..6 ELSE 19..24
  IN IF Off(state, loser) >= 1 THEN "normal"
     ELSE IF \/ OnOwnBar(state.board, loser) >= 1
             \/ \E pt \in winnersHome : state.board[pt].player = loser
       THEN "backgammon"
     ELSE "gammon"

Multiplier(winType) ==
  IF winType = "backgammon" THEN 3 ELSE IF winType = "gammon" THEN 2 ELSE 1

\* What a state is to show once `mover` has borne off its fifteenth checker.
WonBy(state, mover) ==
  /\ state.winner = mover
  /\ state.phase = "gameOver"
  /\ state.winType = WinTypeByRule(state, mover)
  /\ state.pointsAwarded = state.doublingCube.value * Multiplier(state.winType)

\* C13: a make-move that brings the mover's off-count to 15 returns winner =
\* the mover and phase gameOver, winType backgammon, gammon or normal by the
\* loser's off-count, bar and checkers in the winner's home board, and
\* pointsAwarded = cube value times 3, 2 or 1.
C13_WinTypes ==
  /\ (last.op = "makeMove" /\ Off(game, game.moveHistory[Len(game.moveHistory)].player) = 15)
       => WonBy(game, game.moveHistory[Len(game.moveHistory)].player)
  /\ (game.phase = "moving" /\ Off(game, game.currentPlayer) >= 11) =>
       \A legal \in {getLegalMoves(game)} :
         \A moves \in legal :
           \A value \in {1, 2, 4, 8, 16, 32, 64} :
             LET state  == [game EXCEPT !.doublingCube.value = value]
                 result == makeMove(state, moves, NoDice, NoDice)
             IN /\ result.valid
                /\ Off(result.newState, game.currentPlayer) = 15
                     => WonBy(result.newState, game.currentPlayer)
                /\ Off(result.newState, game.currentPlayer) < 15
                     => result.newState.winner = "none"

\* C13 witness: a make-move won a backgammon.
C13_Witness ==
  /\ last.op = "makeMove"
  /\ game.winner = game.moveHistory[Len(game.moveHistory)].player
  /\ game.winType = "backgammon"
  /\ game.pointsAwarded = 3 * game.doublingCube.value

\* The players holding a role in a state, and the pairing foresight vs doubling.
HoldersOf(state, role) == {player \in Players : state.asymmetricRoles[player] = role}

ForesightVsDoubling(state) ==
  /\ state.variant = "asymmetric"
  /\ Cardinality(HoldersOf(state, "doubling")) = 1
  /\ Cardinality(HoldersOf(state, "foresight")) = 1

\* What accepting the double offered in `offered` is to give.
AcceptedFrom(accepted, offered) ==
  /\ accepted.stakes = offered.doublingCube.value
  /\ accepted.doublingCube.value = offered.doublingCube.value
  /\ accepted.doublingCube.owner =
       IF ForesightVsDoubling(offered)
         THEN CHOOSE player \in HoldersOf(offered, "doubling") : TRUE
         ELSE getOpponent(offered.currentPlayer)
  /\ accepted.board = offered.board
  /\ accepted.phase = offered.phase
  /\ accepted.currentPlayer = offered.currentPlayer
  /\ accepted.whiteDice = offered.whiteDice
  /\ accepted.blackDice = offered.blackDice
  /\ accepted.unusedDice = offered.unusedDice

\* C14: accepting a double sets stakes to the doubled cube value and leaves the
\* cube value; the cube goes to the opponent of the offerer in the standard
\* variant and in foresight vs foresight, and stays with the doubling-role
\* holder in foresight vs doubling; board, phase, currentPlayer and dice stay.
C14_AcceptDouble ==
  /\ last.op = "offerDouble" => AcceptedFrom(respondToDouble(game, TRUE), game)
  /\ (last.op = "respondToDouble" /\ last.accept /\ last.offeredAt # 0) =>
       /\ game.stakes = 2 * last.offeredAt
       /\ game.doublingCube.value = 2 * last.offeredAt
       /\ game.doublingCube.owner =
            IF ForesightVsDoubling(game)
              THEN CHOOSE player \in HoldersOf(game, "doubling") : TRUE
              ELSE getOpponent(game.currentPlayer)

\* C14 witness: the doubling-role holder of a foresight-vs-doubling game
\* offered, the double was accepted, and the holder keeps the cube.
C14_Witness ==
  /\ last.op = "respondToDouble" /\ last.accept /\ last.offeredAt # 0
  /\ ForesightVsDoubling(game)
  /\ game.doublingCube.owner = game.currentPlayer
  /\ game.stakes = 2

\* C15: in the standard variant offer-double succeeds only when phase is
\* rolling, the cube is centered or owned by the current player and its value
\* is below 64; it then doubles the cube value and leaves cube owner, stakes,
\* board, phase and currentPlayer; in every other case it fails.
C15_StandardOffer ==
  game.variant = "standard" =>
    LET allowed == /\ game.phase = "rolling"
                   /\ game.doublingCube.owner \in {"none", game.currentPlayer}
                   /\ game.doublingCube.value < 64
        offered == offerDouble(game)
    IN /\ (offerDoubleError(game) = "") <=> allowed
       /\ allowed =>
            /\ offered.doublingCube.value = 2 * game.doublingCube.value
            /\ offered.doublingCube.owner = game.doublingCube.owner
            /\ offered.stakes = game.stakes
            /\ offered.board = game.board
            /\ offered.phase = game.phase
            /\ offered.currentPlayer = game.currentPlayer
       /\ last.op = "offerDouble" =>
            /\ game.phase = "rolling"
            /\ game.doublingCube.owner \in {"none", game.currentPlayer}
            /\ game.doublingCube.value = 2 * last.offeredAt

\* C15 witness: in a standard game the owner of the cube offered a double
\* that brought the cube to 64.
C15_Witness ==
  /\ game.variant = "standard"
  /\ last.op = "offerDouble"
  /\ game.doublingCube.owner = game.currentPlayer
  /\ game.doublingCube.value = 64

\* The holder of the doubling role in a foresight-versus-doubling game.
DoublingHolder(state) == CHOOSE player \in HoldersOf(state, "doubling") : TRUE

\* C16: in an asymmetric game with exactly one doubling-role holder,
\* offerDouble succeeds only when that player is the current player and the
\* phase is rolling or moving, and at most once per turn: once an offer has
\* succeeded every further offer fails until the turn passes.  In every
\* state in which currentPlayer has just changed doubleOfferedThisTurn is
\* false.
C16_OncePerTurn ==
  /\ [](ForesightVsDoubling(game) =>
          /\ offerDoubleError(game) = "" =>
               /\ game.currentPlayer = DoublingHolder(game)
               /\ game.phase \in {"rolling", "moving"}
               /\ offersThisTurn = 0
          /\ offersThisTurn <= 1
          /\ offersThisTurn = 1 => offerDoubleError(game) # "")
  /\ [][game'.currentPlayer # game.currentPlayer => ~game'.doubleOfferedThisTurn]_vars

\* C16 witness: the doubling-role holder offered a double in its turn, the
\* double was accepted, and a second offer in the same turn is refused.
C16_Witness ==
  /\ ForesightVsDoubling(game)
  /\ game.currentPlayer = DoublingHolder(game)
  /\ offersThisTurn = 1
  /\ last.op = "respondToDouble" /\ last.accept
  /\ game.winner = "none"
  /\ offerDoubleError(game) = "Can only offer double once per turn"

CubeValues == {1, 2, 4, 8, 16, 32, 64}

\* The states makeMove returns for the sequences of the generator and the
\* pass, over the dice it may roll for the turn after.
MakeMoveResults(state, faces) ==
  IF state.phase # "moving" THEN {}
  ELSE UNION {
    UNION {
      LET result == ValidateAgainst(state, moves, legal, legalKeys)
      IN IF ~result.valid THEN {}
         ELSE {MakeMoveOn(state, result, moves, rolledForNext, rolledForMoved).newState :
                 rolledForNext \in (IF makeMoveRollsNext(state) THEN AllDice(faces) ELSE {NoDice}),
                 rolledForMoved \in (IF makeMoveRolls(state) THEN AllDice(faces) ELSE {NoDice})}
      : moves \in legal \cup {<<>>}}
    : legal \in {getLegalMoves(state)}, legalKeys \in {LegalKeys(getLegalMoves(state))}}

\* C17: the cube value is always one of 1, 2, 4, 8, 16, 32, 64; offerDouble
\* fails when the value is 64; no operation produces a value above 64 or
\* lowers the value.
C17_CubeValues ==
  /\ [](/\ game.doublingCube.value \in CubeValues
        /\ game.doublingCube.value = 64 => offerDoubleError(game) # ""
        /\ \A after \in MakeMoveResults(game, 1..MaxDie) :
             after.doublingCube.value = game.doublingCube.value)
  /\ [][/\ game'.doublingCube.value >= game.doublingCube.value
        /\ game'.doublingCube.value <= 64]_vars

\* C17 witness: an offer has brought the cube to 64, and the player on roll,
\* who may otherwise double, is refused for the maximum.
C17_Witness ==
  /\ game.doublingCube.value = 64
  /\ last.op = "offerDouble" /\ last.offeredAt = 32
  /\ offerDoubleError(game) = "Cube is already at maximum value"

\* The roles a config assigns, read in either form it may be written in.
AssignedRoles(config) == normalizeAsymmetricRoles(config.asymmetricRoles)

BothDoubling(config) ==
  /\ AssignedRoles(config) # NoRoles
  /\ AssignedRoles(config).white = "doubling"
  /\ AssignedRoles(config).black = "doubling"

\* A match config around a game config.
MatchConfigOf(config) ==
  [type |-> "unlimited", targetScore |-> 0, variant |-> config.variant,
   asymmetricRoles |-> config.asymmetricRoles]

\* C18: asymmetric roles are validated at creation: createGame and
\* createMatch fail when both players are assigned doubling; otherwise
\* createGame sets the cube owner to the one doubling-role holder, or leaves
\* it centered when both hold foresight.  In every asymmetric state after
\* rollForFirst the roles are set, at least one player holds foresight, and
\* in foresight versus doubling the cube owner is the doubling-role holder.
C18_RolesValidated ==
  /\ \A config \in Configs :
       config.variant = "asymmetric" =>
         IF BothDoubling(config)
           THEN /\ createGameThrows(config)
                /\ \A randomRoles \in randomAsymmetricRoles :
                     createMatchThrows(MatchConfigOf(config), randomRoles)
           ELSE /\ ~createGameThrows(config)
                /\ \A randomRoles \in randomAsymmetricRoles :
                     ~createMatchThrows(MatchConfigOf(config), randomRoles)
                /\ ForesightVsDoubling(createGame(config)) =>
                     createGame(config).doublingCube.owner = DoublingHolder(createGame(config))
                /\ HoldersOf(createGame(config), "foresight") = Players =>
                     createGame(config).doublingCube.owner = "none"
  /\ (game.variant = "asymmetric" /\ game.phase # "setup") =>
       /\ game.asymmetricRoles # NoRoles
       /\ HoldersOf(game, "foresight") # {}
       /\ HoldersOf(game, "foresight") \cup HoldersOf(game, "doubling") = Players
       /\ ForesightVsDoubling(game) => game.doublingCube.owner = DoublingHolder(game)

\* C18 witness: in a foresight-versus-doubling game past rollForFirst a
\* double of the doubling-role holder has been accepted, and the cube is
\* with that holder.
C18_Witness ==
  /\ ForesightVsDoubling(game)
  /\ last.op = "respondToDouble" /\ last.accept /\ last.offeredAt > 0
  /\ game.doublingCube.owner = DoublingHolder(game)
  /\ game.doublingCube.value = 2

\* What rollForFirst is to return from `before`.
RolledForFirst(before, after) ==
  /\ after.phase = "rolling"
  /\ after.board = before.board
  /\ IF before.variant = "standard"
       THEN /\ after.whiteDice # NoDice /\ after.blackDice # NoDice
            /\ after.whiteDice.die1 # after.blackDice.die1
            /\ after.currentPlayer =
                 IF after.whiteDice.die1 > after.blackDice.die1 THEN "white" ELSE "black"
       ELSE /\ Cardinality(HoldersOf(after, "foresight")) = 1 =>
                 after.currentPlayer \in HoldersOf(after, "foresight")
            /\ after.currentPlayer \in Players
            /\ after.whiteDice = NoDice /\ after.blackDice = NoDice
            /\ after.doublingCube.owner =
                 IF Cardinality(HoldersOf(after, "doubling")) = 1
                   THEN DoublingHolder(after) ELSE "none"

\* C19: rollForFirst fails unless the phase is setup, and otherwise returns
\* phase rolling with the board unchanged.  Standard: the two dice it records
\* differ and currentPlayer is the owner of the higher die.  Asymmetric: if
\* exactly one player holds foresight that player is currentPlayer,
\* otherwise either player may be; both dice are null and the cube owner is
\* the one doubling-role holder, or the cube is centered.
C19_RollForFirst ==
  /\ (rollForFirstError(game) = "") <=> game.phase = "setup"
  /\ game.phase = "setup" =>
       \A results \in {rollForFirstResults(game, 1..MaxDie)} :
         /\ results # {}
         /\ \A after \in results : RolledForFirst(game, after)
         /\ (game.variant = "asymmetric" /\ HoldersOf(game, "foresight") = Players) =>
              {after.currentPlayer : after \in results} = Players
  /\ last.op = "rollForFirst" =>
       /\ game.board = createInitialBoard
       /\ RolledForFirst(game, game)

\* C19 witness: rollForFirst of a standard game has returned, and black, who
\* rolled the higher die, is to move.
C19_Witness ==
  /\ last.op = "rollForFirst"
  /\ game.variant = "standard"
  /\ game.currentPlayer = "black"
  /\ game.blackDice.die1 > game.whiteDice.die1

\* The dice of the player to move.
MoverDice(state) ==
  IF state.currentPlayer = "white" THEN state.whiteDice ELSE state.blackDice

\* C20: the opening roll is never a double: when rollTurn is applied to a
\* state whose moveHistory is empty, in any variant and role pairing, the
\* mover's dice have two different values and unusedDice has exactly two
\* entries.
C20_OpeningRoll ==
  (last.op = "rollTurn" /\ Len(game.moveHistory) = 0) =>
    /\ MoverDice(game) # NoDice
    /\ MoverDice(game).die1 # MoverDice(game).die2
    /\ Len(game.unusedDice) = 2
    /\ {game.unusedDice[1], game.unusedDice[2]} =
         {MoverDice(game).die1, MoverDice(game).die2}

\* C20 witness: the opening roll of a foresight-versus-foresight game has
\* been made, and the opponent's dice, rolled with it, are a double.
C20_Witness ==
  /\ last.op = "rollTurn"
  /\ Len(game.moveHistory) = 0
  /\ game.variant = "asymmetric"
  /\ HoldersOf(game, "foresight") = Players
  /\ MoverDice(game).die1 # MoverDice(game).die2
  /\ MoverDice([game EXCEPT !.currentPlayer = getOpponent(game.currentPlayer)]) # NoDice
  /\ MoverDice([game EXCEPT !.currentPlayer = getOpponent(game.currentPlayer)]).die1 =
       MoverDice([game EXCEPT !.currentPlayer = getOpponent(game.currentPlayer)]).die2

DiceOf(state, player) == IF player = "white" THEN state.whiteDice ELSE state.blackDice

ForesightVsForesight(state) ==
  state.variant = "asymmetric" /\ HoldersOf(state, "foresight") = Players

\* C21: foresight versus foresight: after the opening rollTurn, in every
\* later state without a winner the phase is moving and both players' dice
\* are set; when a turn passes, the new mover's dice are the dice already
\* shown for that player, unusedDice is their expansion, and dice are rolled
\* afresh for the player who has just moved; the phase never returns to
\* rolling.
C21_ForesightMirror ==
  /\ [](ForesightVsForesight(game) =>
          /\ (game.winner = "none" /\ (Len(game.moveHistory) > 0 \/ game.phase = "moving")) =>
               /\ game.phase = "moving"
               /\ game.whiteDice # NoDice /\ game.blackDice # NoDice
          /\ (game.winner = "none" /\ game.phase = "moving") =>
               {DiceOf(HandOverAsymmetric(game,
                         [game EXCEPT !.currentPlayer = getOpponent(game.currentPlayer)],
                         rolledForNext, rolledForMoved), game.currentPlayer)
                  : rolledForNext \in (IF makeMoveRollsNext(game) THEN AllDice(1..MaxDie) ELSE {NoDice}),
                    rolledForMoved \in AllDice(1..MaxDie)} = AllDice(1..MaxDie))
  /\ [][(ForesightVsForesight(game) /\ game.phase = "moving") =>
          /\ game'.phase \in {"moving", "gameOver"}
          /\ game'.currentPlayer # game.currentPlayer =>
               /\ DiceOf(game, game'.currentPlayer) # NoDice
               /\ DiceOf(game', game'.currentPlayer) = DiceOf(game, game'.currentPlayer)
               /\ game'.unusedDice = getDiceValues(DiceOf(game', game'.currentPlayer))
               /\ DiceOf(game', game.currentPlayer) # NoDice]_vars

\* C21 witness: in a foresight-versus-foresight game the first turn has
\* passed and the second player is on move, in phase moving, with the double
\* that was shown for it at the opening roll.
C21_Witness ==
  /\ ForesightVsForesight(game)
  /\ last.op = "makeMove"
  /\ Len(game.moveHistory) = 1
  /\ game.currentPlayer # game.moveHistory[1].player
  /\ game.phase = "moving"
  /\ DiceOf(game, game.currentPlayer) # NoDice
  /\ DiceOf(game, game.currentPlayer).die1 = DiceOf(game, game.currentPlayer).die2
  /\ Len(game.unusedDice) = 4
  /\ DiceOf(game, getOpponent(game.currentPlayer)) # NoDice

\* The holder of the foresight role in a foresight-versus-doubling game.
ForesightHolder(state) == CHOOSE player \in HoldersOf(state, "foresight") : TRUE

\* C22: foresight versus doubling: the foresight player's rollTurn rolls both
\* players' dice; when the foresight player's turn completes without a
\* winner the doubling-role player is on move in phase moving with unusedDice
\* the expansion of the dice rolled for it, and the foresight player's dice
\* are null throughout that turn; when the doubling-role player's turn
\* completes, the foresight player is on move in phase rolling with both dice
\* null.  The doubling-role player is never on move in phase rolling.
C22_ForesightVsDoubling ==
  /\ [](ForesightVsDoubling(game) =>
          /\ last.op = "rollTurn" =>
               /\ game.currentPlayer = ForesightHolder(game)
               /\ game.whiteDice # NoDice /\ game.blackDice # NoDice
          /\ ~(game.currentPlayer = DoublingHolder(game) /\ game.phase = "rolling")
          /\ (game.currentPlayer = DoublingHolder(game) /\ game.phase = "moving") =>
               /\ DiceOf(game, ForesightHolder(game)) = NoDice
               /\ DiceOf(game, DoublingHolder(game)) # NoDice
               /\ \A handed \in {HandOverAsymmetric(game,
                                   [game EXCEPT !.currentPlayer = ForesightHolder(game)],
                                   NoDice, NoDice)} :
                    /\ handed.phase = "rolling"
                    /\ handed.whiteDice = NoDice /\ handed.blackDice = NoDice)
  /\ [][(ForesightVsDoubling(game) /\ game.phase = "moving"
         /\ game'.currentPlayer # game.currentPlayer) =>
          IF game.currentPlayer = ForesightHolder(game)
            THEN /\ game'.phase = "moving"
                 /\ DiceOf(game', game'.currentPlayer) = DiceOf(game, game'.currentPlayer)
                 /\ game'.unusedDice = getDiceValues(DiceOf(game, game'.currentPlayer))
                 /\ DiceOf(game', game.currentPlayer) = NoDice
            ELSE /\ game'.phase = "rolling"
                 /\ game'.whiteDice = NoDice /\ game'.blackDice = NoDice]_vars

\* C22 witness: the foresight player's turn has completed and the
\* doubling-role player is on move, in phase moving, with the dice rolled for
\* it at the foresight player's rollTurn, the foresight player's dice null.
C22_Witness ==
  /\ ForesightVsDoubling(game)
  /\ last.op = "makeMove"
  /\ game.currentPlayer = DoublingHolder(game)
  /\ game.phase = "moving"
  /\ DiceOf(game, ForesightHolder(game)) = NoDice
  /\ game.unusedDice = getDiceValues(DiceOf(game, DoublingHolder(game)))

\* Whether a player stands one point short of the target in a match that
\* goes on.
NeedsOne(match) ==
  /\ match.winner = "none"
  /\ \/ match.score.white = match.config.targetScore - 1
     \/ match.score.black = match.config.targetScore - 1

\* The updates of the log (positions 2 and up) that left a player one point
\* short of the target without the match being won.
NeedsOneUpdates == {i \in 2..Len(matchLog) : NeedsOne(matchLog[i])}

\* C23: Crawford rule in a limited match with target T: crawfordGame is true
\* for exactly one game of the match, the game that follows the first
\* updateMatchScore after which either score equals T - 1 without the match
\* being won; for every later game crawfordGame is false and postCrawford is
\* true; crawfordGame and postCrawford are never both true.
C23_CrawfordOnce ==
  (matchLog # <<>> /\ CurrentMatch.config.type = "limited") =>
    \A i \in 1..Len(matchLog) :
      /\ ~(matchLog[i].crawfordGame /\ matchLog[i].postCrawford)
      /\ matchLog[i].winner = "none" =>
           /\ matchLog[i].crawfordGame <=>
                (NeedsOneUpdates # {} /\ i = CHOOSE j \in NeedsOneUpdates :
                                               \A k \in NeedsOneUpdates : j <= k)
           /\ (\E j \in NeedsOneUpdates : j < i) =>
                (~matchLog[i].crawfordGame /\ matchLog[i].postCrawford)

\* C23 witness: a limited match has had its Crawford game and goes on with
\* a player still one point short: two games past the first such update.
C23_Witness ==
  /\ Len(matchLog) = 4
  /\ CurrentMatch.config.type = "limited"
  /\ matchLog[2].crawfordGame
  /\ NeedsOne(matchLog[3]) /\ matchLog[3].postCrawford
  /\ NeedsOne(matchLog[4]) /\ matchLog[4].postCrawford /\ ~matchLog[4].crawfordGame

\* C26: updateMatchScore(winner, points) adds points to the winner's score
\* only: the other player's score, the config and the roles are unchanged,
\* currentGame increases by exactly 1, and the returned match winner is set
\* exactly when the match is limited and a score has reached the target
\* score, never in an unlimited match.
C26_UpdateMatchScore ==
  matchLog # <<>> =>
    \A winner \in Players, points \in 1..MaxPoints :
      \A updated \in {updateMatchScore(CurrentMatch, winner, points)} :
        /\ updated.score[winner] = CurrentMatch.score[winner] + points
        /\ updated.score[getOpponent(winner)] = CurrentMatch.score[getOpponent(winner)]
        /\ updated.config = CurrentMatch.config
        /\ updated.asymmetricRoles = CurrentMatch.asymmetricRoles
        /\ updated.currentGame = CurrentMatch.currentGame + 1
        /\ (updated.winner # "none") <=>
             /\ updated.config.type = "limited"
             /\ \E player \in Players : updated.score[player] >= updated.config.targetScore
        /\ updated.config.type = "unlimited" => updated.winner = "none"

\* C26 witness: an update has brought black exactly to the target of a
\* limited match that white had not won, and black is the match winner.
C26_Witness ==
  /\ Len(matchLog) >= 2
  /\ last.op = "updateMatchScore"
  /\ CurrentMatch.config.type = "limited"
  /\ matchLog[Len(matchLog) - 1].winner = "none"
  /\ CurrentMatch.score.black = CurrentMatch.config.targetScore
  /\ CurrentMatch.score.white > 0
  /\ CurrentMatch.winner = "black"

\* C27: a match is terminal once it has a winner: no later updateMatchScore
\* changes the match winner or the score.
C27_MatchTerminal ==
  \A i \in 1..Len(matchLog) : \A j \in i..Len(matchLog) :
    matchLog[i].winner # "none" =>
      /\ matchLog[j].winner = matchLog[i].winner
      /\ matchLog[j].score = matchLog[i].score

\* The game state with another doubling cube.
WithCube(state, value, owner) ==
  [state EXCEPT !.doublingCube = [@ EXCEPT !.value = value, !.owner = owner]]

\* Every cube a game state may carry.
Cubes == {[value |-> value, owner |-> owner] :
            value \in CubeValues, owner \in Players \cup {"none"}}

\* The game in play is the one the match state stands for: it has not been
\* scored yet.
GameInPlay == session.mode # "none" /\ session.updates = 0

\* C24: while the match is in its Crawford game, canOfferDoubleNow is false
\* for either player in the game state, whatever the value and the owner of
\* the cube; so in the automation loop and on the server no double is
\* offered during that game: none is pending and the cube stays at 1.
C24_NoDoubleInCrawford ==
  (CurrentMatch.crawfordGame /\ GameInPlay) =>
    /\ \A player \in Players : \A cube \in Cubes :
         ~canOfferDoubleNow(CurrentMatch, WithCube(game, cube.value, cube.owner), player)
    /\ session.pendingDoubleOfferer = "none"
    /\ last.op # "offerDouble"
    /\ game.doublingCube.value = 1

\* C24 witness: the Crawford game of a match is in play, a turn has been
\* made, and the player on turn could double were it not the Crawford game.
C24_Witness ==
  /\ CurrentMatch.crawfordGame /\ GameInPlay
  /\ Len(game.moveHistory) > 0
  /\ game.winner = "none"
  /\ canOfferDoubleNow([CurrentMatch EXCEPT !.crawfordGame = FALSE],
                       game, game.currentPlayer)

\* C25: canOfferDoubleNow is false when no move has been made in the game,
\* when the cube is at 64, and, in a limited match outside the Crawford
\* game, when the asking player's score plus the cube value reaches the
\* target.
C25_NoDoubleNow ==
  GameInPlay =>
    \A player \in Players : \A cube \in Cubes :
      LET state == WithCube(game, cube.value, cube.owner)
      IN (\/ Len(state.moveHistory) = 0
          \/ cube.value = 64
          \/ /\ CurrentMatch.config.type = "limited"
             /\ ~CurrentMatch.crawfordGame
             /\ CurrentMatch.score[player] + cube.value >= CurrentMatch.config.targetScore)
         => ~canOfferDoubleNow(CurrentMatch, state, player)

\* C25 witness: a limited match outside its Crawford game, a turn made, the
\* cube below 64: the score of the player on turn plus the cube value
\* reaches the target, and nothing else keeps that player from doubling.
C25_Witness ==
  /\ GameInPlay
  /\ CurrentMatch.config.type = "limited" /\ ~CurrentMatch.crawfordGame
  /\ Len(game.moveHistory) > 0
  /\ game.doublingCube.value < 64
  /\ CurrentMatch.score[game.currentPlayer] + game.doublingCube.value
       >= CurrentMatch.config.targetScore
  /\ canOfferDoubleNow([CurrentMatch EXCEPT !.config.type = "unlimited"],
                       game, game.currentPlayer)

\* C28: in runAutomatedMatch and on the server the match is updated exactly
\* once for each completed game, with that game's winner and pointsAwarded,
\* before the next game is created, and never for a game without a winner.
C28_ScoredOncePerGame ==
  /\ [](session.mode # "none" =>
          /\ session.updates <= 1
          /\ session.updates = 1 =>
               /\ game.winner # "none"
               /\ Len(matchLog) >= 2
               /\ CurrentMatch = updateMatchScore(matchLog[Len(matchLog) - 1],
                                                  game.winner, game.pointsAwarded)
          /\ (session.mode = "server" /\ game.winner # "none") => session.updates = 1
          /\ game.winner = "none" => session.updates = 0)
  /\ [][/\ matchLog' # matchLog =>
             /\ Len(matchLog') = Len(matchLog) + 1
             /\ SubSeq(matchLog', 1, Len(matchLog)) = matchLog
             /\ game'.winner # "none"
             /\ session.updates = 0 /\ session'.updates = 1
        /\ (game.winner # "none" /\ game' # game) =>
             /\ session.updates = 1
             /\ matchLog' = matchLog
             /\ CurrentMatch.winner = "none"
             /\ game'.winner = "none"]_vars

\* C28 witness: the second game of a match has been won and scored, and the
\* match goes on.
C28_Witness ==
  /\ session.mode # "none"
  /\ Len(matchLog) = 3
  /\ session.updates = 1
  /\ game.winner # "none"
  /\ CurrentMatch.winner = "none"
  /\ CurrentMatch.score[game.winner] = matchLog[2].score[game.winner] + game.pointsAwarded

\* C30: the server applies a double offer only when it comes from the
\* player on turn: whenever a double is pending on the server,
\* pendingDoubleOfferer is state.currentPlayer.
C30_OfferFromPlayerOnTurn ==
  (session.mode = "server" /\ session.pendingDoubleOfferer # "none") =>
    session.pendingDoubleOfferer = game.currentPlayer

\* The mover's checkers on a point counted from the mover's side: 1..24 the
\* points, 25 the bar.
CheckersAt(board, player, playerPoint) ==
  IF playerPoint = 25 THEN getCheckerCount(board, getBarPoint(player), player)
  ELSE getCheckerCount(board, IF player = "white" THEN playerPoint ELSE 25 - playerPoint,
                       player)

\* The board a sequence of the generator is played on before its step i.
RECURSIVE BoardBefore(_, _, _, _)
BoardBefore(board, player, seq, i) ==
  IF i = 1 THEN board
  ELSE SearchApply(BoardBefore(board, player, seq, i - 1), player, seq[i - 1]).board

\* C29: every bear-off move of every sequence getLegalMoves returns is made
\* at a step where the mover has no checker on the bar and none outside its
\* home board; with a die larger than the checker's distance it is made
\* only when no checker stands on a higher home point at that step.
C29_BearOffEligibility ==
  \A seq \in getLegalMoves(game) : \A i \in DOMAIN seq :
    seq[i].to = -1 =>
      LET board == BoardBefore(game.board, game.currentPlayer, seq, i)
      IN /\ seq[i].from \in 1..6
         /\ CheckersAt(board, game.currentPlayer, seq[i].from) > 0
         /\ seq[i].die >= seq[i].from
         /\ \A playerPoint \in 7..25 : CheckersAt(board, game.currentPlayer, playerPoint) = 0
         /\ seq[i].die > seq[i].from =>
              \A playerPoint \in (seq[i].from + 1)..6 :
                CheckersAt(board, game.currentPlayer, playerPoint) = 0

\* C29 witness: a sequence of the generator bears a checker off, after an
\* earlier move of the sequence, with a die larger than its distance, while
\* the mover holds a lower point as well.
C29_Witness ==
  /\ game.phase = "moving"
  /\ \E seq \in getLegalMoves(game) : \E i \in DOMAIN seq :
       /\ i > 1
       /\ seq[i].to = -1 /\ seq[i].die > seq[i].from
       /\ \E playerPoint \in 1..(seq[i].from - 1) :
            CheckersAt(BoardBefore(game.board, game.currentPlayer, seq, i),
                       game.currentPlayer, playerPoint) > 0

\* C31: every successful makeMove completes the turn: moveHistory grows by
\* exactly one Turn holding the mover and the mover's dice, and unless the
\* game is won currentPlayer becomes the opponent, in the standard variant
\* in phase rolling with unusedDice empty and both dice cleared; so
\* consecutive Turns of moveHistory belong to different players.
C31_TurnCompleted ==
  /\ [][last'.op = "makeMove" /\ game' # game =>
          /\ Len(game'.moveHistory) = Len(game.moveHistory) + 1
          /\ SubSeq(game'.moveHistory, 1, Len(game.moveHistory)) = game.moveHistory
          /\ game'.moveHistory[Len(game'.moveHistory)].player = game.currentPlayer
          /\ game'.moveHistory[Len(game'.moveHistory)].dice = MoverDice(game)
          /\ game'.winner = "none" =>
               /\ game'.currentPlayer = getOpponent(game.currentPlayer)
               /\ game.variant = "standard" =>
                    /\ game'.phase = "rolling"
                    /\ game'.unusedDice = <<>>
                    /\ game'.whiteDice = NoDice /\ game'.blackDice = NoDice]_vars
  /\ [](\A i \in 1..(Len(game.moveHistory) - 1) :
          game.moveHistory[i].player # game.moveHistory[i + 1].player)

\* The board and the off-counts of a game state.
Outcome(state) ==
  [board |-> state.board, whiteOff |-> state.whiteOff, blackOff |-> state.blackOff]

\* The sequences of the generator a submitted sequence is a reordering of.
ReorderedFrom(legal, moves) == {seq \in legal : SortedKey(seq) = SortedKey(moves)}

\* C32: when makeMove accepts a sequence that is a reordering of a sequence
\* of getLegalMoves, every move of it is carried out: the resulting board
\* and off-counts are those reached by applying the generator's sequence in
\* the generator's order.
C32_ReorderingApplied ==
  game.phase = "moving" =>
    \A legal \in {getLegalMoves(game)} : \A legalKeys \in {LegalKeys(legal)} :
      \A moves \in Submitted(legal) :
        LET result == ValidateAgainst(game, moves, legal, legalKeys)
        IN (result.valid /\ moves # <<>>) =>
             \A seq \in ReorderedFrom(legal, moves) :
               Outcome(result.newState)
                 = Outcome(ValidateAgainst(game, seq, legal, legalKeys).newState)

\* Whether every value occurs in the sequence `part` at most as often as in
\* the sequence `whole`.
SubMultiset(part, whole) ==
  \A value \in {part[i] : i \in DOMAIN part} :
    Cardinality({i \in DOMAIN part : part[i] = value})
      <= Cardinality({i \in DOMAIN whole : whole[i] = value})

\* C33: phase and dice agree in every reachable state: in phase setup or
\* rolling unusedDice is empty; in phase moving unusedDice is non-empty, the
\* current player's dice are set, and unusedDice is a sub-multiset of the
\* expansion of those dice (four equal values for a double, otherwise the
\* two values).
C33_PhaseAndDice ==
  /\ game.phase \in {"setup", "rolling"} => game.unusedDice = <<>>
  /\ game.phase = "moving" =>
       /\ game.unusedDice # <<>>
       /\ MoverDice(game) # NoDice
       /\ SubMultiset(game.unusedDice,
                      IF MoverDice(game).die1 = MoverDice(game).die2
                        THEN [i \in 1..4 |-> MoverDice(game).die1]
                        ELSE <<MoverDice(game).die1, MoverDice(game).die2>>)

\* C33 witness: makeMove has handed the turn to a player whose dice were
\* rolled before: phase moving, unusedDice the expansion of a double.
C33_Witness ==
  /\ last.op = "makeMove"
  /\ game.phase = "moving"
  /\ game.currentPlayer # game.moveHistory[Len(game.moveHistory)].player
  /\ MoverDice(game).die1 = MoverDice(game).die2
  /\ Len(game.unusedDice) = 4

OffOf(state, player) == IF player = "white" THEN state.whiteOff ELSE state.blackOff

\* C34: in every reachable state winner is set if and only if phase is
\* gameOver; when the game ended by a makeMove the winner is the player who
\* made that move, its off-count is 15 and the other player's is below 15.
C34_WinnerAndGameOver ==
  /\ game.winner # "none" <=> game.phase = "gameOver"
  /\ (last.op = "makeMove" /\ game.winner # "none") =>
       /\ game.winner = game.moveHistory[Len(game.moveHistory)].player
       /\ game.winner = game.currentPlayer
       /\ OffOf(game, game.winner) = 15
       /\ OffOf(game, getOpponent(game.winner)) < 15

\* C34 witness: a makeMove has borne off the mover's last checker in a
\* game whose cube had been turned.
C34_Witness ==
  /\ last.op = "makeMove"
  /\ game.winner # "none"
  /\ game.doublingCube.value = 2

\* The matches a game state may be played in, as far as canOfferDoubleNow
\* reads them: type and target, the scores, the Crawford flags.
MatchesAround(state) ==
  {[createMatch([type |-> kind.type, targetScore |-> kind.targetScore,
                 variant |-> state.variant, asymmetricRoles |-> state.asymmetricRoles],
                state.asymmetricRoles)
      EXCEPT !.score = [white |-> white, black |-> black],
             !.crawfordGame = flags[1], !.postCrawford = flags[2]]
     : kind \in {[type |-> "unlimited", targetScore |-> 0]}
                \cup {[type |-> "limited", targetScore |-> target] : target \in 1..MaxTarget},
       white \in 0..MaxTarget, black \in 0..MaxTarget,
       flags \in {<<FALSE, FALSE>>, <<TRUE, FALSE>>, <<FALSE, TRUE>>}}

\* C35: the match-level gate is at least as strict as the engine: for every
\* match and reachable game state, if canOfferDoubleNow(match, state,
\* state.currentPlayer) is true then offerDouble(state) succeeds and doubles
\* the cube value.
C35_GateImpliesEngine ==
  \A match \in MatchesAround(game) :
    canOfferDoubleNow(match, game, game.currentPlayer) =>
      /\ offerDoubleError(game) = ""
      /\ offerDouble(game).doublingCube.value = 2 * game.doublingCube.value

\* C35 witness: the gate is open for the doubling-role holder of a foresight
\* versus doubling game, on move in phase moving with a cube already turned.
C35_Witness ==
  /\ game.variant = "asymmetric"
  /\ game.phase = "moving"
  /\ game.doublingCube.value > 1
  /\ \E match \in MatchesAround(game) :
       /\ match.config.type = "limited"
       /\ canOfferDoubleNow(match, game, game.currentPlayer)

-----------------------------------------------------------------------------
\* C37: at most one callback of enqueueBotAction is scheduled or running for
\* the game, and botThinking says whether one is.  A request that arrives
\* while one is changes nothing but botQueued, and botQueued is cleared only by
\* the step in which the run settles, which schedules the one follow-up run.
C37_OneBotActionInFlight ==
  /\ [](/\ session.botInFlight <= 1
        /\ session.botThinking <=> session.botInFlight = 1
        /\ session.botThinking <=> session.botPhase # "idle"
        /\ session.botQueued => session.botThinking)
  /\ [][/\ (~session.botQueued /\ session'.botQueued)
             => /\ session.botThinking
                /\ session'.botInFlight = session.botInFlight
                /\ session'.botPhase = session.botPhase
                /\ session'.botRun = session.botRun
        /\ (session.botQueued /\ ~session'.botQueued)
             => /\ session.botPhase \in {"scheduled", "deciding"}
                /\ session'.botRun = <<>>
                /\ session'.botPhase = "scheduled"
                /\ session'.botInFlight = 1]_vars

\* A request has arrived while stepAutomatedTurn awaits the bot's controller.
C37_Witness ==
  /\ session.botPhase = "deciding"
  /\ session.botQueued
  /\ session.botInFlight = 1

\* C38: when processBotActions stores the result of stepAutomatedTurn, the
\* game state and pendingDoubleOfferer are the ones the call was given.
C38_StoredOverWhatWasPassed ==
  [][(session.botPhase = "deciding" /\ session'.botPhase # "deciding" /\ game' # game)
       => /\ game = session.botRun[1].state
          /\ session.pendingDoubleOfferer = session.botRun[1].pendingDoubleOfferer]_vars

-----------------------------------------------------------------------------
\* C39: while a game is in play and no double is pending, stakes equals the
\* cube value; a game won by bearing off has stakes equal to the cube value,
\* and its pointsAwarded equals calculateScore.  After a declined double
\* stakes is half the cube value, and pointsAwarded equals calculateScore.
C39_StakesFollowCubeInPlay ==
  /\ (game.winner = "none" /\ ~DoublePending) => game.stakes = game.doublingCube.value
  /\ (last.op = "makeMove" /\ game.winner # "none")
       => /\ game.stakes = game.doublingCube.value
          /\ game.pointsAwarded = calculateScore(game)
  /\ (last.op = "respondToDouble" /\ game.winner # "none")
       => /\ game.stakes * 2 = game.doublingCube.value
          /\ game.pointsAwarded = calculateScore(game)

\* C39 witness: a game with the cube at 2 has been won by bearing off with
\* a gammon or a backgammon.
C39_Witness ==
  /\ last.op = "makeMove"
  /\ game.winner # "none"
  /\ game.doublingCube.value = 2
  /\ game.winType # "normal"
  /\ game.pointsAwarded = calculateScore(game)

\* C39 as stated: stakes equals the cube value whenever no double is pending,
\* the states after a game has ended included.
C39_StakesFollowCube ==
  /\ ~DoublePending => game.stakes = game.doublingCube.value
  /\ (last.op = "makeMove" /\ game.winner # "none")
       => game.pointsAwarded = calculateScore(game)

-----------------------------------------------------------------------------
\* C40: runAutomatedMatch on a limited match to T, every game ending with a
\* winner, reaches a match with a winner; at most 2T - 1 games are scored,
\* and each adds at least 1 point to the score of one player and nothing to
\* the other's.
C40_MatchTerminates ==
  /\ <>(CurrentMatch.winner # "none")
  /\ [](Len(matchLog) - 1 <= 2 * CurrentMatch.config.targetScore - 1)
  /\ [][matchLog' # matchLog
          => \E player \in Players :
               /\ CurrentMatch'.score[player] >= CurrentMatch.score[player] + 1
               /\ CurrentMatch'.score[getOpponent(player)]
                    = CurrentMatch.score[getOpponent(player)]]_vars

\* C40 witness: a match to 2 or more has been won in its game 2T - 1.
C40_Witness ==
  /\ CurrentMatch.config.targetScore >= 2
  /\ CurrentMatch.winner # "none"
  /\ Len(matchLog) - 1 = 2 * CurrentMatch.config.targetScore - 1

====
